---- MODULE Spec2Model ----
(***************************************************************************)
(* Transfuse: the styling and block-extraction engine (src/src/dom.cpp),   *)
(* the injector (src/src/inject.cpp) and the DOCX adapter                  *)
(* (src/src/format-docx.cpp).                                              *)
(*                                                                         *)
(* Strings are sequences of tokens.  A token is a character (k = "ch"), a  *)
(* piece of markup (open tag, close tag, empty-element tag), an inline     *)
(* delimiter (U+E011 kind:id U+E012, U+E013, U+E020 kind:id U+E021) or a   *)
(* block sentinel (TFB_OPEN_B id TFB_OPEN_E, TFB_CLOSE_B id TFB_CLOSE_E).  *)
(* The regular expressions of the source never match a proper part of a    *)
(* markup token or of a delimiter, so they are modelled on tokens.         *)
(***************************************************************************)
EXTENDS Integers, Sequences, FiniteSets, TLC

VARIABLES
    pc,                  \* position in the extract / translate / inject run
    format,              \* state.format(): "html" or "docx"
    input,               \* the document as the adapter parsed it
    doc,                 \* DOM::xml, the tree the passes mutate
    content,             \* the interim string (styled.xml, then content.xml)
    styles,              \* the Style Store: a sequence of [kind, open, close]
    stream,              \* blocks written by extract_blocks: <<id, hash, body>>
    blocks,              \* DOM::blocks, the block counter
    tin,                 \* the translated stream inject reads
    tpos,                \* how many blocks of tin inject has read
    tmode,               \* what the translator did to the stream
    err,                 \* the error stream
    did,                 \* inject's loop flag of the expansion loop
    txn,                 \* Style Store transaction: "none", "open", "committed"
    tags_prot,           \* DOM::tags_prot
    tags_parents_allow,  \* DOM::tags_parents_allow
    tags_parents_direct, \* DOM::tags_parents_direct
    output,              \* what the adapter emits (injected.xml)
    streams,             \* inject()'s argument stream: the Streams value selected
    header,              \* the first line of the translated stream
    tmpdir,              \* inject()'s argument tmpdir, then the state folder used
    folder,              \* the state folder on disk: whether it exists, its files
    sformat,             \* the stream codec inject() made: "none" before
    fatal                \* the message of the exception inject() threw, or ""

\* the arguments and the surroundings of inject(), and what its first lines made
start_vars == <<streams, header, tmpdir, folder, sformat, fatal>>

vars == <<pc, format, input, doc, content, styles, stream, blocks, tin, tpos, tmode,
          err, did, txn, tags_prot, tags_parents_allow, tags_parents_direct, output,
          start_vars>>

----------------------------------------------------------------------------
(* Bounds of the model *)

\* longest text node of an input document
MaxText == 2
\* most children of the input's block element
MaxKids == 3
\* most children of an inline element nested in another
MaxInner == 2

----------------------------------------------------------------------------
(* Tokens *)

Tok(k, n, id, h, a) == [k |-> k, n |-> n, id |-> id, h |-> h, a |-> a]

Ch(x) == Tok("ch", x, 0, 0, <<>>)
\* <name attrs>
OTag(n, a) == Tok("otag", n, 0, 0, a)
\* </name>
CTag(n) == Tok("ctag", n, 0, 0, <<>>)
\* <name attrs/>
ETag(n, a) == Tok("etag", n, 0, 0, a)
\* an open delimiter carrying the id after the one given
IOpen_next(kind, id) == Tok("iopen", kind, id + 1, 0, <<>>)
\* TFI_OPEN_B kind ':' id TFI_OPEN_E
IOpen(kind, id) == Tok("iopen", kind, id, 0, <<>>)
\* TFI_CLOSE
IClose == Tok("iclose", "", 0, 0, <<>>)
\* U+E020 kind ':' id U+E021
POpen(kind, id) == Tok("popen", kind, id, 0, <<>>)
\* TFB_OPEN_B n '-' hash TFB_OPEN_E
BOpen(n, h) == Tok("bopen", "", n, h, <<>>)
\* TFB_CLOSE_B n '-' hash TFB_CLOSE_E
BClose(n, h) == Tok("bclose", "", n, h, <<>>)

Str(cs) == [i \in 1..Len(cs) |-> Ch(cs[i])]

\* [\s\r\n\p{Z}] and [\s\p{Zs}]
IsWs(t) == t.k = "ch" /\ t.n = " "
\* \p{L}
IsLetter(t) == t.k = "ch" /\ t.n \in {"a", "c", "m", "p", "z"}
\* \p{N}
IsDigit(t) == t.k = "ch" /\ t.n \in {"1"}
\* [\w\p{L}\p{N}\p{M}]
IsAlnum(t) == IsLetter(t) \/ IsDigit(t)
\* a token whose last character is '>'
IsMarkup(t) == t.k \in {"otag", "ctag", "etag"}

SubStr(s, b, e) == IF b > e THEN <<>> ELSE SubSeq(s, b, e)
AllWs(s) == \A i \in 1..Len(s) : IsWs(s[i])
AnyAlnum(s) == \E i \in 1..Len(s) : IsAlnum(s[i])

\* length of the leading / trailing whitespace run
RECURSIVE HeadWs(_)
HeadWs(s) == IF s # <<>> /\ IsWs(Head(s)) THEN 1 + HeadWs(Tail(s)) ELSE 0
RECURSIVE TailWs(_)
TailWs(s) ==
    IF s # <<>> /\ IsWs(s[Len(s)]) THEN 1 + TailWs(SubStr(s, 1, Len(s) - 1)) ELSE 0

----------------------------------------------------------------------------
(* The element tree (libxml2's xmlNode): t is "e" (element), "t" (text) or *)
(* "c" (comment); a is the ordered attribute list, c the children, s the   *)
(* content of a text node.                                                 *)

Node(t, n, a, c, s) == [t |-> t, n |-> n, a |-> a, c |-> c, s |-> s]
Elem(n, a, c) == Node("e", n, a, c, <<>>)
Text(s) == Node("t", "text", <<>>, <<>>, s)
Comment == Node("c", "comment", <<>>, <<>>, <<>>)
\* the xmlDoc node, whose children are the root element
Doc(c) == Node("d", "", <<>>, c, <<>>)
Attr(an, av) == [an |-> an, av |-> av]

\* child->type == XML_ELEMENT_NODE || child->properties
ElementLike(n) == n.t = "e" \/ n.a # <<>>

\* xmlHasProp
HasProp(n, an) == \E i \in 1..Len(n.a) : n.a[i].an = an
\* attr->children->content
PropVal(n, an) == n.a[CHOOSE i \in 1..Len(n.a) : n.a[i].an = an].av
\* xmlSetProp: replaces the value of an attribute the node has, else appends one
SetProp(n, an, av) ==
    IF HasProp(n, an)
    THEN [n EXCEPT !.a = [i \in 1..Len(n.a) |->
                            IF n.a[i].an = an THEN Attr(an, av) ELSE n.a[i]]]
    ELSE [n EXCEPT !.a = Append(n.a, Attr(an, av))]
\* xmlRemoveProp
RemoveProp(n, an) ==
    [n EXCEPT !.a = SelectSeq(n.a, LAMBDA x : x.an # an)]

\* xmlStrncmp(a->name, "tf-", 3) == 0
IsTfName(an) ==
    an \in {"tf-space-prefix", "tf-space-suffix", "tf-space-before",
            "tf-space-after", "tf-protect", "tf-text"}

----------------------------------------------------------------------------
(* Entity escaping and the XML reader and writer *)

Amp == Str(<<"&", "a", "m", "p", ";">>)

\* append_xml: '&' becomes "&amp;"
RECURSIVE append_xml(_)
append_xml(s) ==
    IF s = <<>> THEN <<>>
    ELSE (IF Head(s) = Ch("&") THEN Amp ELSE <<Head(s)>>) \o append_xml(Tail(s))

\* the reader's resolution of "&amp;"
RECURSIVE Unescape(_)
Unescape(s) ==
    IF s = <<>> THEN <<>>
    ELSE IF Len(s) >= 5 /\ SubSeq(s, 1, 5) = Amp
         THEN <<Ch("&")>> \o Unescape(SubSeq(s, 6, Len(s)))
         ELSE <<Head(s)>> \o Unescape(Tail(s))

EscAttrs(a) == [i \in 1..Len(a) |-> Attr(a[i].an, append_xml(a[i].av))]
UnescAttrs(a) == [i \in 1..Len(a) |-> Attr(a[i].an, Unescape(a[i].av))]

\* xmlSaveFileTo / xmlNodeDump: every attribute is written, text is escaped, an
\* element without children is written as an empty-element tag
RECURSIVE Serialize(_), SerializeAll(_)
Serialize(n) ==
    CASE n.t = "t" -> append_xml(n.s)
      [] n.t = "c" -> <<Tok("comment", "", 0, 0, <<>>)>>
      [] n.t = "d" -> SerializeAll(n.c)
      [] OTHER -> IF n.c = <<>> THEN <<ETag(n.n, EscAttrs(n.a))>>
                  ELSE <<OTag(n.n, EscAttrs(n.a))>> \o SerializeAll(n.c) \o <<CTag(n.n)>>
SerializeAll(c) ==
    IF c = <<>> THEN <<>> ELSE Serialize(Head(c)) \o SerializeAll(Tail(c))

\* append a character to the children under construction: it extends a text
\* node that ends them, else starts one
AddChar(c, t) ==
    IF c # <<>> /\ c[Len(c)].t = "t"
    THEN [c EXCEPT ![Len(c)].s = Append(@, t)]
    ELSE Append(c, Text(<<t>>))

\* close the innermost open element of the stack
PopElem(st) ==
    LET top == st[Len(st)]
        up  == st[Len(st) - 1]
    IN Append(SubSeq(st, 1, Len(st) - 2), [up EXCEPT !.c = Append(@, top)])

\* xmlReadMemory(..., XML_PARSE_RECOVER | XML_PARSE_NONET): blank text nodes are
\* kept, a close tag closes the innermost open element, open elements are closed
\* at the end of input
RECURSIVE Build(_, _)
Build(s, st) ==
    IF s = <<>>
    THEN IF Len(st) = 1 THEN st[1] ELSE Build(s, PopElem(st))
    ELSE LET t == Head(s)
             top == st[Len(st)]
         IN CASE t.k = "otag" ->
                   Build(Tail(s), Append(st, Elem(t.n, UnescAttrs(t.a), <<>>)))
              [] t.k = "etag" ->
                   Build(Tail(s), [st EXCEPT ![Len(st)].c =
                                       Append(@, Elem(t.n, UnescAttrs(t.a), <<>>))])
              [] t.k = "comment" ->
                   Build(Tail(s), [st EXCEPT ![Len(st)].c = Append(@, Comment)])
              [] t.k = "ctag" ->
                   Build(Tail(s), IF Len(st) > 1 THEN PopElem(st) ELSE st)
              [] OTHER ->
                   Build(Tail(s), [st EXCEPT ![Len(st)].c = AddChar(@, t)])
Parse(s) == Build(Unescape(s), <<Doc(<<>>)>>)

----------------------------------------------------------------------------
(* Tag policy tables the HTML adapter gives the DOM it extracts from. tags_prot is
   a variable: the DOM inject() constructs is given no table. *)

html_tags_prot == {"x"}
tags_prot_inline == {"br"}
tags_inline == {"b", "i"}
tags_raw == {}
tag_attrs == <<"alt">>

----------------------------------------------------------------------------
(* Whitespace Preserver *)

SetKidProp(dom, j, an, av) == [dom EXCEPT !.c[j] = SetProp(@, an, av)]

\* the pure-whitespace branch with the next sibling tried before the previous one
save_blank_only_next_first(dom, i) ==
    LET child == dom.c[i]
        n == Len(dom.c)
    IN IF i = 1 THEN SetProp(dom, "tf-space-prefix", child.s)
       ELSE IF i = n THEN SetProp(dom, "tf-space-suffix", child.s)
       ELSE IF ElementLike(dom.c[i + 1])
            THEN SetKidProp(dom, i + 1, "tf-space-before", child.s)
       ELSE IF ElementLike(dom.c[i - 1])
            THEN SetKidProp(dom, i - 1, "tf-space-after", child.s)
       ELSE dom

\* the pure-whitespace branch of save_spaces: one anchor, the first that applies
save_blank_only(dom, i) ==
    LET child == dom.c[i]
        n == Len(dom.c)
    IN IF i = 1 THEN SetProp(dom, "tf-space-prefix", child.s)
       ELSE IF i = n THEN SetProp(dom, "tf-space-suffix", child.s)
       ELSE IF ElementLike(dom.c[i - 1])
            THEN SetKidProp(dom, i - 1, "tf-space-after", child.s)
       ELSE IF ElementLike(dom.c[i + 1])
            THEN SetKidProp(dom, i + 1, "tf-space-before", child.s)
       ELSE dom

\* the leading run: previous sibling if element-like, parent if there is none
save_blank_head(dom, i) ==
    LET s == dom.c[i].s
        ws == SubStr(s, 1, HeadWs(s))
    IN IF HeadWs(s) = 0 THEN dom
       ELSE IF i > 1
            THEN IF ElementLike(dom.c[i - 1])
                 THEN SetKidProp(dom, i - 1, "tf-space-after", ws)
                 ELSE dom
            ELSE SetProp(dom, "tf-space-prefix", ws)

\* the trailing run: next sibling if element-like, parent if there is none
save_blank_tail(dom, i) ==
    LET s == dom.c[i].s
        ws == SubStr(s, Len(s) - TailWs(s) + 1, Len(s))
    IN IF TailWs(s) = 0 THEN dom
       ELSE IF i < Len(dom.c)
            THEN IF ElementLike(dom.c[i + 1])
                 THEN SetKidProp(dom, i + 1, "tf-space-before", ws)
                 ELSE dom
            ELSE SetProp(dom, "tf-space-suffix", ws)

\* no child is passed over
skip_none(child) == FALSE
\* if (tags_prot.count(to_lower(name))) continue;
skip_protected(child) == child.n \in tags_prot

RECURSIVE save_spaces(_), save_spaces_at(_, _)
save_spaces_at(dom, i) ==
    IF i > Len(dom.c) THEN dom
    ELSE LET child == dom.c[i]
         IN IF skip_protected(child) THEN save_spaces_at(dom, i + 1)
            ELSE IF child.t # "t"
            THEN save_spaces_at([dom EXCEPT !.c[i] = save_spaces(child)], i + 1)
            ELSE IF AllWs(child.s)
            THEN save_spaces_at(save_blank_only(dom, i), i + 1)
            ELSE save_spaces_at(save_blank_tail(save_blank_head(dom, i), i), i + 1)
save_spaces(dom) == save_spaces_at(dom, 1)

\* s += xc without its leading whitespace run
append_ltrim(s, xc) == s \o SubStr(xc, HeadWs(xc) + 1, Len(xc))
\* xc without its trailing whitespace run
assign_rtrim(xc) == SubStr(xc, 1, Len(xc) - TailWs(xc))

\* tf-space-after put before the text, and left on the sibling
restore_after_kept(dom, i) ==
    IF i > 1 /\ HasProp(dom.c[i - 1], "tf-space-after")
    THEN [dom EXCEPT !.c[i].s = append_ltrim(PropVal(dom.c[i - 1], "tf-space-after"), @)]
    ELSE dom

\* the four tests restore_spaces makes for one text child, in the source's order
restore_after(dom, i) ==
    IF i > 1 /\ HasProp(dom.c[i - 1], "tf-space-after")
    THEN [dom EXCEPT !.c[i].s = append_ltrim(PropVal(dom.c[i - 1], "tf-space-after"), @),
                     !.c[i - 1] = RemoveProp(@, "tf-space-after")]
    ELSE dom
restore_prefix(dom, i) ==
    IF i = 1 /\ HasProp(dom, "tf-space-prefix")
    THEN RemoveProp([dom EXCEPT !.c[i].s =
                        append_ltrim(PropVal(dom, "tf-space-prefix"), @)],
                    "tf-space-prefix")
    ELSE dom
restore_before(dom, i) ==
    IF i < Len(dom.c) /\ HasProp(dom.c[i + 1], "tf-space-before")
    THEN [dom EXCEPT !.c[i].s = assign_rtrim(@) \o PropVal(dom.c[i + 1], "tf-space-before"),
                     !.c[i + 1] = RemoveProp(@, "tf-space-before")]
    ELSE dom
restore_suffix(dom, i) ==
    IF i = Len(dom.c) /\ HasProp(dom, "tf-space-suffix")
    THEN RemoveProp([dom EXCEPT !.c[i].s =
                        assign_rtrim(@) \o PropVal(dom, "tf-space-suffix")],
                    "tf-space-suffix")
    ELSE dom

RECURSIVE restore_spaces(_), restore_spaces_at(_, _)
restore_spaces_at(dom, i) ==
    IF i > Len(dom.c) THEN dom
    ELSE LET child == dom.c[i]
         IN IF child.n \in tags_prot THEN restore_spaces_at(dom, i + 1)
            ELSE IF child.t # "t"
            THEN restore_spaces_at([dom EXCEPT !.c[i] = restore_spaces(child)], i + 1)
            ELSE restore_spaces_at(
                     restore_suffix(restore_before(restore_prefix(
                         restore_after(dom, i), i), i), i), i + 1)
restore_spaces(dom) == restore_spaces_at(dom, 1)

\* xmlAddChild of a text node: merged into a text node that ends the children
AddChildText(c, s) ==
    IF c # <<>> /\ c[Len(c)].t = "t"
    THEN [c EXCEPT ![Len(c)].s = @ \o s]
    ELSE Append(c, Text(s))
\* xmlAddPrevSibling(c[i], text): merged into c[i] or c[i-1] when that is text
AddPrevText(c, i, s) ==
    IF c[i].t = "t" THEN [c EXCEPT ![i].s = s \o @]
    ELSE IF i > 1 /\ c[i - 1].t = "t" THEN [c EXCEPT ![i - 1].s = @ \o s]
    ELSE SubStr(c, 1, i - 1) \o <<Text(s)>> \o SubStr(c, i, Len(c))
\* xmlAddNextSibling(c[i], text): merged into c[i] or c[i+1] when that is text
AddNextText(c, i, s) ==
    IF c[i].t = "t" THEN [c EXCEPT ![i].s = @ \o s]
    ELSE IF i < Len(c) /\ c[i + 1].t = "t" THEN [c EXCEPT ![i + 1].s = s \o @]
    ELSE SubStr(c, 1, i) \o <<Text(s)>> \o SubStr(c, i + 1, Len(c))

\* the four materialisations create_spaces makes for child i, in the source's
\* order; each yields the parent and the child's index
create_after(dom, i) ==
    IF HasProp(dom.c[i], "tf-space-after")
    THEN [dom EXCEPT !.c = AddNextText([dom.c EXCEPT ![i] = RemoveProp(@, "tf-space-after")],
                                       i, PropVal(dom.c[i], "tf-space-after"))]
    ELSE dom
create_prefix(dom, i) ==
    LET child == dom.c[i]
        s == PropVal(child, "tf-space-prefix")
    IN IF HasProp(child, "tf-space-prefix")
       THEN [dom EXCEPT !.c[i] = RemoveProp(
                [child EXCEPT !.c = IF child.c # <<>> THEN AddPrevText(child.c, 1, s)
                                    ELSE AddChildText(child.c, s)],
                "tf-space-prefix")]
       ELSE dom
\* yields <<parent, index of the child afterwards>>
create_before(dom, i) ==
    IF HasProp(dom.c[i], "tf-space-before")
    THEN LET c == AddPrevText([dom.c EXCEPT ![i] = RemoveProp(@, "tf-space-before")],
                              i, PropVal(dom.c[i], "tf-space-before"))
         IN <<[dom EXCEPT !.c = c], i + Len(c) - Len(dom.c)>>
    ELSE <<dom, i>>
create_suffix(dom, i) ==
    LET child == dom.c[i]
    IN IF HasProp(child, "tf-space-suffix")
       THEN [dom EXCEPT !.c[i] = RemoveProp(
                [child EXCEPT !.c = AddChildText(child.c, PropVal(child, "tf-space-suffix"))],
                "tf-space-suffix")]
       ELSE dom

RECURSIVE create_spaces(_), create_spaces_at(_, _)
create_spaces_at(dom, i) ==
    IF i > Len(dom.c) THEN dom
    ELSE LET child == dom.c[i]
         IN IF child.n \in tags_prot THEN create_spaces_at(dom, i + 1)
            ELSE IF ElementLike(child)
            THEN LET d1 == [dom EXCEPT !.c[i] = create_spaces(child)]
                     d2 == create_prefix(create_after(d1, i), i)
                     d3 == create_before(d2, i)
                     d4 == create_suffix(d3[1], d3[2])
                 IN create_spaces_at(d4, d3[2] + 1)
            ELSE create_spaces_at(dom, i + 1)
create_spaces(dom) == create_spaces_at(dom, 1)

----------------------------------------------------------------------------
(* Style Store (State::style) *)

Style(kind, o, c) == [kind |-> kind, open |-> o, close |-> c]

\* style_put: identical triples yield identical ids; yields <<store, id>>
style_put(st, kind, o, c) ==
    IF \E i \in 1..Len(st) : st[i] = Style(kind, o, c)
    THEN <<st, CHOOSE i \in 1..Len(st) : st[i] = Style(kind, o, c)>>
    ELSE <<Append(st, Style(kind, o, c)), Len(st) + 1>>

StyleKnown(st, kind, id) == id \in 1..Len(st) /\ st[id].kind = kind

\* style_get: empty strings if absent
style_get(st, kind, id) ==
    IF StyleKnown(st, kind, id) THEN <<st[id].open, st[id].close>> ELSE <<<<>>, <<>>>>

----------------------------------------------------------------------------
(* Styler *)

\* append_attrs that never writes a tf- attribute
append_attrs_no_tf(n, with_tf) ==
    EscAttrs(SelectSeq(n.a, LAMBDA x : ~IsTfName(x.an)))

\* append_attrs(s, n, with_tf): the attributes written into an open tag
append_attrs(n, with_tf) ==
    EscAttrs(SelectSeq(n.a, LAMBDA x : with_tf \/ ~IsTfName(x.an)))

\* rx_space_only
is_space(xc) == xc # <<>> /\ AllWs(xc)

\* the tests is_only_child makes on the siblings of child i
only_child_here(dom, i) ==
    LET c == dom.c
        n == Len(c)
    IN /\ \/ i = 1
          \/ i = 2 /\ c[1].t = "t" /\ is_space(c[1].s)
       /\ \/ i = n
          \/ i = n - 1 /\ c[n].t = "t" /\ is_space(c[n].s)

\* is_only_child that does not look at the parent's own siblings
is_only_child_flat(dom, i, up) == only_child_here(dom, i)

\* is_only_child(child i of dom); up is is_only_child(dom)
is_only_child(dom, i, up) ==
    IF only_child_here(dom, i) /\ dom.n \in tags_inline THEN up
    ELSE only_child_here(dom, i)

RECURSIVE has_block_child(_)
has_block_child(dom) ==
    \E i \in 1..Len(dom.c) :
        LET cn == dom.c[i]
        IN /\ cn.t # "t"
           /\ ElementLike(cn)
           /\ \/ ~(cn.n \in tags_inline \/ cn.n \in tags_prot_inline)
              \/ has_block_child(cn)

TfProtectOpen == OTag("tf-protect", <<>>)
TfProtectClose == CTag("tf-protect")

\* save_styles(s, dom, rn, protect): yields [s |-> the text appended, st |-> store];
\* up is is_only_child(dom)
RECURSIVE save_styles(_, _, _, _), save_styles_at(_, _, _, _, _, _)
save_styles_at(dom, i, protect, st, up, s) ==
    IF i > Len(dom.c) THEN [s |-> s, st |-> st]
    ELSE
    LET child == dom.c[i]
        lname == child.n
        l_protect == lname \in tags_prot \/ protect \/ HasProp(child, "tf-protect")
        attrs == append_attrs(child, TRUE)
        otag == <<OTag(child.n, attrs)>>
        ctag == <<CTag(child.n)>>
        only == is_only_child(dom, i, up)
    IN
    IF child.t = "t"
    THEN save_styles_at(dom, i + 1, protect, st, up,
             s \o (IF dom.n \in tags_raw THEN child.s ELSE append_xml(child.s)))
    ELSE IF ~ElementLike(child)
    THEN save_styles_at(dom, i + 1, protect, st, up, s)
    ELSE IF child.c = <<>>
    THEN save_styles_at(dom, i + 1, protect, st, up,
             s \o (IF lname \in tags_prot_inline /\ ~protect
                   THEN <<TfProtectOpen, ETag(child.n, attrs), TfProtectClose>>
                   ELSE <<ETag(child.n, attrs)>>))
    ELSE IF lname \in tags_prot_inline /\ ~protect
    THEN LET r == save_styles(child, TRUE, st, only)
         IN save_styles_at(dom, i + 1, protect, r.st, up,
                s \o <<TfProtectOpen>> \o otag \o r.s \o ctag \o <<TfProtectClose>>)
    ELSE IF /\ ~l_protect
            /\ lname \in tags_inline
            /\ child.c[1].n \notin tags_prot
            /\ ~only
            /\ ~has_block_child(child)
    THEN LET p == style_put(st, child.n, otag, ctag)
             r == save_styles(child, FALSE, p[1], only)
         IN save_styles_at(dom, i + 1, protect, r.st, up,
                s \o <<IOpen(child.n, p[2])>> \o r.s \o <<IClose>>)
    ELSE LET r == save_styles(child, l_protect, st, only)
         IN save_styles_at(dom, i + 1, protect, r.st, up, s \o otag \o r.s \o ctag)
save_styles(dom, protect, st, up) == save_styles_at(dom, 1, protect, st, up, <<>>)

----------------------------------------------------------------------------
(* Protected-inline promotion *)

\* what a search looks for: a tf-protect tag, else the token's kind
Class(t) ==
    IF t = OTag("tf-protect", <<>>) THEN "protopen"
    ELSE IF t = CTag("tf-protect") THEN "protclose"
    ELSE t.k

\* index of the first token of class cls from position from on, 0 if none
RECURSIVE FindTok(_, _, _)
FindTok(s, from, cls) ==
    IF from > Len(s) THEN 0
    ELSE IF Class(s[from]) = cls THEN from ELSE FindTok(s, from + 1, cls)

\* index of the last token of class cls up to position to, 0 if none
RECURSIVE RFindTok(_, _, _)
RFindTok(s, to, cls) ==
    IF to < 1 THEN 0
    ELSE IF Class(s[to]) = cls THEN to ELSE RFindTok(s, to - 1, cls)

IsIOpen(t) == t.k = "iopen"
IsIClose(t) == t.k = "iclose"
IsPOpen(t) == t.k = "popen"
IsProtOpen(t) == t = TfProtectOpen
IsProtClose(t) == t = TfProtectClose

\* the first pass: </tf-protect>([\s\r\n\p{Z}]*)<tf-protect> keeps its whitespace
RECURSIVE merge_prots(_)
merge_prots(s) ==
    IF s = <<>> THEN <<>>
    ELSE LET w == HeadWs(Tail(s))
         IN IF /\ IsProtClose(Head(s))
               /\ Len(s) >= w + 2
               /\ IsProtOpen(s[w + 2])
            THEN SubStr(s, 2, w + 1) \o merge_prots(SubStr(s, w + 3, Len(s)))
            ELSE <<Head(s)>> \o merge_prots(Tail(s))

\* rx_block_start: >[\s\p{Zs}]*$
rx_block_start(ns) ==
    LET e == Len(ns) - TailWs(ns) IN e >= 1 /\ IsMarkup(ns[e])
\* rx_block_end: ^[\s\p{Zs}]*<
rx_block_end(sfx) ==
    LET b == HeadWs(sfx) + 1 IN b <= Len(sfx) /\ IsMarkup(sfx[b])
\* rx_ifx_start: ([^]+)[\s\p{Zs}]*$
rx_ifx_start(ns) ==
    LET e == Len(ns) - TailWs(ns) IN e >= 1 /\ IsIOpen(ns[e])
\* rx_pfx_style: [\s\p{Zs}]*$
rx_pfx_style(ns) ==
    LET e == Len(ns) - TailWs(ns) IN e >= 1 /\ IsIClose(ns[e])
\* a character [^>\s\p{Z}]
IsTokenChar(t) == ~IsMarkup(t) /\ ~IsWs(t) /\ ~IsIOpen(t) /\ t.k # "comment"
\* rx_pfx_token: [^>\s\p{Z}]+[\s\p{Zs}]*$ ; yields the start of the match, 0 if none
RECURSIVE TokenRunStart(_, _)
TokenRunStart(ns, e) ==
    IF e >= 1 /\ IsTokenChar(ns[e]) THEN TokenRunStart(ns, e - 1) ELSE e + 1
rx_pfx_token(ns) ==
    LET e == Len(ns) - TailWs(ns)
    IN IF e >= 1 /\ IsTokenChar(ns[e]) THEN TokenRunStart(ns, e) ELSE 0

\* one iteration of the while loop of a pass, for the protected region
\* styled[b..e] (wrapper included) found from last on; yields the new ns, last, store
protect_region(styled, ns0, last, b, e, st) ==
    LET ns == ns0 \o SubStr(styled, last + 1, b - 1)
        inner == SubStr(styled, b + 1, e - 1)
        sfx == SubStr(styled, e + 1, Len(styled))
        open == Len(ns) - TailWs(ns)
        \* styled.find(TFI_CLOSE, last); without one the rest of styled is taken
        found == FindTok(styled, e + 1, "iclose")
        first_c == IF found = 0 THEN Len(styled) + 1 ELSE found
        last_s == RFindTok(ns, Len(ns), "iopen")
        tok_s == rx_pfx_token(ns)
        pi == style_put(st, "P", inner, <<>>)
        pc_ == style_put(st, "P", <<>>, inner)
    IN IF rx_block_start(ns) \/ rx_block_end(sfx)
       THEN [ns |-> ns \o inner, last |-> e, st |-> st]
       ELSE IF rx_ifx_start(ns)
       THEN [ns |-> SubStr(ns, 1, open) \o <<IOpen("P", pi[2])>>
                    \o SubStr(ns, open + 1, Len(ns))
                    \o SubStr(styled, e + 1, first_c - 1) \o <<IClose>>,
             last |-> first_c - 1, st |-> pi[1]]
       ELSE IF rx_pfx_style(ns)
       THEN [ns |-> SubStr(ns, 1, last_s - 1) \o <<IOpen("P", pc_[2])>>
                    \o SubStr(ns, last_s, Len(ns)) \o <<IClose>>,
             last |-> e, st |-> pc_[1]]
       ELSE IF tok_s > 0
       THEN [ns |-> SubStr(ns, 1, tok_s - 1) \o <<IOpen("P", pc_[2])>>
                    \o SubStr(ns, tok_s, Len(ns)) \o <<IClose>>,
             last |-> e, st |-> pc_[1]]
       ELSE [ns |-> ns, last |-> e, st |-> st]

\* the while loop of one pass: last counts the tokens of styled consumed
RECURSIVE protect_pass(_, _, _, _)
protect_pass(styled, ns, last, st) ==
    LET b == FindTok(styled, last + 1, "protopen")
        e == IF b = 0 THEN 0 ELSE FindTok(styled, b + 1, "protclose")
    IN IF b = 0 \/ e = 0 THEN [ns |-> ns, last |-> last, st |-> st]
       ELSE LET r == protect_region(styled, ns, last, b, e, st)
            IN protect_pass(styled, r.ns, r.last, r.st)

\* passes of the promotion loop that are left
ProtectPasses == 100

\* one pass and no more
protect_loop_once(styled, st, i) ==
    LET r == protect_pass(styled, <<>>, 0, st)
    IN IF r.last = 0 THEN [s |-> styled, st |-> st, n |-> 0]
       ELSE [s |-> r.ns \o SubStr(styled, r.last + 1, Len(styled)), st |-> r.st, n |-> 1]

\* the for loop: stops at the first pass that finds no region
RECURSIVE protect_loop(_, _, _)
protect_loop(styled, st, i) ==
    IF i = 0 THEN [s |-> styled, st |-> st, n |-> ProtectPasses]
    ELSE LET r == protect_pass(styled, <<>>, 0, st)
         IN IF r.last = 0 THEN [s |-> styled, st |-> st, n |-> ProtectPasses - i]
            ELSE protect_loop(r.ns \o SubStr(styled, r.last + 1, Len(styled)), r.st, i - 1)

\* protect_to_styles(styled): yields [s, st, n]: the string, the store, the passes made
protect_to_styles(styled, st) == protect_loop(merge_prots(styled), st, ProtectPasses)

----------------------------------------------------------------------------
(* Style Cleanup *)

\* last index of the run of alphanumerics / letters / whitespace that starts at p
RECURSIVE AlnumEnd(_, _)
AlnumEnd(s, p) == IF p < Len(s) /\ IsAlnum(s[p + 1]) THEN AlnumEnd(s, p + 1) ELSE p
RECURSIVE LetterEnd(_, _)
LetterEnd(s, p) == IF p < Len(s) /\ IsLetter(s[p + 1]) THEN LetterEnd(s, p + 1) ELSE p
RECURSIVE WsEnd(_, _)
WsEnd(s, p) == IF p < Len(s) /\ IsWs(s[p + 1]) THEN WsEnd(s, p + 1) ELSE p
\* last index of the run of [^U+E011-U+E013] that starts at p
RECURSIVE BodyEnd(_, _)
BodyEnd(s, p) ==
    IF p < Len(s) /\ ~IsIOpen(s[p + 1]) /\ ~IsIClose(s[p + 1]) THEN BodyEnd(s, p + 1) ELSE p

\* In each pass i is where the matcher looks next and l the first token not yet
\* copied to tmp; the pass yields tmp with the rest of str appended.

\* rx_alpha_prefix: ([\p{L}\p{N}\p{M}]*?[\p{L}\p{M}])(U+E011 [^U+E012]+ U+E012)(\p{L}+)
RECURSIVE alpha_prefix(_, _, _)
alpha_prefix(s, i, l) ==
    IF i > Len(s) THEN SubStr(s, l, Len(s))
    ELSE IF ~IsAlnum(s[i]) THEN alpha_prefix(s, i + 1, l)
    ELSE LET q == AlnumEnd(s, i)
             r == LetterEnd(s, q + 2)
         IN IF /\ IsLetter(s[q])
               /\ q + 2 <= Len(s)
               /\ IsIOpen(s[q + 1])
               /\ IsLetter(s[q + 2])
            THEN SubStr(s, l, i - 1) \o <<s[q + 1]>> \o SubStr(s, i, q)
                 \o SubStr(s, q + 2, r) \o alpha_prefix(s, r + 1, r + 1)
            ELSE alpha_prefix(s, q + 1, l)

\* rx_alpha_suffix: (\p{L}[\p{L}\p{M}]*)(U+E013)(\p{L}[\p{L}\p{N}\p{M}]*)
RECURSIVE alpha_suffix(_, _, _)
alpha_suffix(s, i, l) ==
    IF i > Len(s) THEN SubStr(s, l, Len(s))
    ELSE IF ~IsLetter(s[i]) THEN alpha_suffix(s, i + 1, l)
    ELSE LET q == LetterEnd(s, i)
             r == AlnumEnd(s, q + 2)
         IN IF /\ q + 2 <= Len(s)
               /\ IsIClose(s[q + 1])
               /\ IsLetter(s[q + 2])
            THEN SubStr(s, l, i - 1) \o SubStr(s, i, q) \o SubStr(s, q + 2, r)
                 \o <<s[q + 1]>> \o alpha_suffix(s, r + 1, r + 1)
            ELSE alpha_suffix(s, q + 1, l)

\* rx_spc_prefix: (U+E011 [^U+E012]+ U+E012)([\s\p{Zs}]+)
RECURSIVE spc_prefix(_, _, _)
spc_prefix(s, i, l) ==
    IF i > Len(s) THEN SubStr(s, l, Len(s))
    ELSE IF IsIOpen(s[i]) /\ i < Len(s) /\ IsWs(s[i + 1])
    THEN LET r == WsEnd(s, i + 1)
         IN SubStr(s, l, i - 1) \o SubStr(s, i + 1, r) \o <<s[i]>>
            \o spc_prefix(s, r + 1, r + 1)
    ELSE spc_prefix(s, i + 1, l)

\* rx_spc_suffix: ([\s\p{Zs}]+)(U+E013)
RECURSIVE spc_suffix(_, _, _)
spc_suffix(s, i, l) ==
    IF i > Len(s) THEN SubStr(s, l, Len(s))
    ELSE IF ~IsWs(s[i]) THEN spc_suffix(s, i + 1, l)
    ELSE LET q == WsEnd(s, i)
         IN IF q < Len(s) /\ IsIClose(s[q + 1])
            THEN SubStr(s, l, i - 1) \o <<s[q + 1]>> \o SubStr(s, i, q)
                 \o spc_suffix(s, q + 2, q + 2)
            ELSE spc_suffix(s, q + 1, l)

\* rx_merge: (U+E011 [^U+E012]+ U+E012)([^U+E011-U+E013]+) U+E013 ([\s\p{Zs}]*)(\1)
RECURSIVE merge_spans(_, _, _)
merge_spans(s, i, l) ==
    IF i > Len(s) THEN SubStr(s, l, Len(s))
    ELSE IF ~IsIOpen(s[i]) THEN merge_spans(s, i + 1, l)
    ELSE LET q == BodyEnd(s, i)
             r == IF q + 1 <= Len(s) THEN WsEnd(s, q + 1) ELSE q + 1
         IN IF /\ q > i
               /\ q + 1 <= Len(s)
               /\ IsIClose(s[q + 1])
               /\ r + 1 <= Len(s)
               /\ s[r + 1] = s[i]
            THEN SubStr(s, l, i - 1) \o SubStr(s, i, q) \o SubStr(s, q + 2, r)
                 \o merge_spans(s, r + 2, r + 2)
            ELSE merge_spans(s, i + 1, l)

\* cleanup_styles(str): the five rewrites, each applied once, in order
cleanup_styles(str) ==
    merge_spans(
        spc_suffix(
            spc_prefix(
                alpha_suffix(
                    alpha_prefix(str, 1, 1), 1, 1), 1, 1), 1, 1), 1, 1)

----------------------------------------------------------------------------
(* Block Extractor *)

CharCode(t) ==
    CASE t.k # "ch" -> 7
      [] t.n = " " -> 1
      [] t.n = "a" -> 2
      [] t.n = "c" -> 3
      [] OTHER -> 5

\* XXH32(value, 0), shortened to three bits
RECURSIVE XXH32(_)
XXH32(s) == IF s = <<>> THEN 0 ELSE (3 * XXH32(Tail(s)) + CharCode(Head(s))) % 8

Block(n, h, body) == [id |-> n, h |-> h, body |-> body]

\* TFB_OPEN_B id TFB_OPEN_E value TFB_CLOSE_B id TFB_CLOSE_E
Wrapped(n, value) ==
    <<BOpen(n, XXH32(value))>> \o value \o <<BClose(n, XXH32(value))>>

\* a counter that is read but not incremented
NextBlock_stuck(n) == n

\* the next block identifier: ++blocks
NextBlock(n) == n + 1

\* the loop over tag_attrs for one element; r is [dom, stream, blocks], the
\* element is child i of r.dom
RECURSIVE extract_attrs(_, _, _)
extract_attrs(r, i, k) ==
    IF k > Len(tag_attrs) THEN r
    ELSE LET child == r.dom.c[i]
             value == PropVal(child, tag_attrs[k])
             n == NextBlock(r.blocks)
         IN IF HasProp(child, tag_attrs[k]) /\ AnyAlnum(value)
            THEN extract_attrs(
                     [dom |-> SetKidProp(r.dom, i, tag_attrs[k], Wrapped(n, value)),
                      stream |-> Append(r.stream, Block(n, XXH32(value), value)),
                      blocks |-> n], i, k + 1)
            ELSE extract_attrs(r, i, k + 1)

\* a test of the parent that leaves tags_parents_direct out
text_extracted_any_direct(dom, child, txt, allow, direct) ==
    /\ child.s # <<>>
    /\ txt
    /\ ~HasProp(dom, "tf-protect")
    /\ AnyAlnum(child.s)

\* whether a text child of dom is extracted
text_extracted(dom, child, txt, allow, direct) ==
    /\ child.s # <<>>
    /\ txt
    /\ ~HasProp(dom, "tf-protect")
    /\ (direct = {} \/ dom.n \in direct)
    /\ AnyAlnum(child.s)

\* extract_blocks(s, dom, rn, txt): r is [dom, stream, blocks] so far
RECURSIVE extract_blocks(_, _, _, _), extract_blocks_at(_, _, _, _, _)
extract_blocks_at(r, i, txt, allow, direct) ==
    IF i > Len(r.dom.c) THEN r
    ELSE
    LET child == r.dom.c[i]
        lname == child.n
        r1 == IF ElementLike(child) THEN extract_attrs(r, i, 1) ELSE r
        sub(t) == extract_blocks([r1 EXCEPT !.dom = r1.dom.c[i]], t, allow, direct)
        into(q) == [q EXCEPT !.dom = [r1.dom EXCEPT !.c[i] = q.dom]]
        n == NextBlock(r.blocks)
    IN IF lname \in tags_prot THEN extract_blocks_at(r, i + 1, txt, allow, direct)
       ELSE IF lname \in allow
       THEN extract_blocks_at(into(sub(TRUE)), i + 1, txt, allow, direct)
       ELSE IF ElementLike(child)
       THEN extract_blocks_at(into(sub(txt)), i + 1, txt, allow, direct)
       ELSE IF text_extracted(r.dom, child, txt, allow, direct)
       THEN extract_blocks_at(
                [dom |-> [r.dom EXCEPT !.c[i].s = Wrapped(n, child.s)],
                 stream |-> Append(r.stream, Block(n, XXH32(child.s), child.s)),
                 blocks |-> n], i + 1, txt, allow, direct)
       ELSE extract_blocks_at(r, i + 1, txt, allow, direct)
extract_blocks(r, txt, allow, direct) ==
    IF r.dom.c = <<>> THEN r
    ELSE extract_blocks_at(r, 1, txt \/ allow = {}, allow, direct)

----------------------------------------------------------------------------
(* Injector *)

\* a line of the error stream
Err(what, n, id, h) == [what |-> what, n |-> n, id |-> id, h |-> h]

\* trim(buffer): leading and trailing whitespace removed
trim(s) == SubStr(s, HeadWs(s) + 1, Len(s) - TailWs(s))

\* content.find(t, from): index of the first token equal to t, 0 if none
RECURSIVE FindEq(_, _, _)
FindEq(s, from, t) ==
    IF from > Len(s) THEN 0
    ELSE IF s[from] = t THEN from ELSE FindEq(s, from + 1, t)

\* The splice loop on one run of characters (the text, or one attribute value):
\* every region from tmp_b to the next tmp_e is replaced by buffer; the loop ends
\* at the first tmp_b that no tmp_e follows.
RECURSIVE splice_run(_, _, _, _, _)
splice_run(s, l, tmp_b, tmp_e, buffer) ==
    LET b == FindEq(s, l, tmp_b)
        e == IF b = 0 THEN 0 ELSE FindEq(s, b + 1, tmp_e)
    IN IF b = 0 \/ e = 0 THEN SubStr(s, l, Len(s))
       ELSE SubStr(s, l, b - 1) \o buffer \o splice_run(s, e + 1, tmp_b, tmp_e, buffer)

\* whether the loop replaces anything in the run (l # 0 after it)
has_region(s, tmp_b, tmp_e) ==
    LET b == FindEq(s, 1, tmp_b) IN b # 0 /\ FindEq(s, b + 1, tmp_e) # 0

\* the attribute values of a token, each rewritten by f
MapAttrs(t, f(_)) == [t EXCEPT !.a = [j \in 1..Len(@) |-> Attr(@[j].an, f(@[j].av))]]

\* the splice loop on content, of which attribute values are runs too
splice(cont, tmp_b, tmp_e, buffer) ==
    LET f(v) == splice_run(v, 1, tmp_b, tmp_e, buffer)
    IN f([i \in 1..Len(cont) |-> MapAttrs(cont[i], f)])

found_region(cont, tmp_b, tmp_e) ==
    \/ has_region(cont, tmp_b, tmp_e)
    \/ \E i \in 1..Len(cont) : \E j \in 1..Len(cont[i].a) :
           has_region(cont[i].a[j].av, tmp_b, tmp_e)

\* one block spliced in with the whitespace around its body
inject_block_untrimmed(cont, errs, blk) ==
    LET buffer == append_xml(blk.body)
        tmp_b == BOpen(blk.id, blk.h)
        tmp_e == BClose(blk.id, blk.h)
    IN [content |-> splice(cont, tmp_b, tmp_e, buffer),
        err |-> IF found_region(cont, tmp_b, tmp_e) THEN errs
                ELSE Append(errs, Err("block", "", blk.id, blk.h))]

\* one block spliced in, and the markers of every other block removed at once
inject_block_sweep(cont, errs, blk) ==
    LET buffer == append_xml(trim(blk.body))
        tmp_b == BOpen(blk.id, blk.h)
        tmp_e == BClose(blk.id, blk.h)
    IN [content |-> SelectSeq(splice(cont, tmp_b, tmp_e, buffer),
                              LAMBDA t : t.k \notin {"bopen", "bclose"}),
        err |-> IF found_region(cont, tmp_b, tmp_e) THEN errs
                ELSE Append(errs, Err("block", "", blk.id, blk.h))]

\* one block read from the stream: the body of the while loop
inject_block(cont, errs, blk) ==
    LET buffer == append_xml(trim(blk.body))
        tmp_b == BOpen(blk.id, blk.h)
        tmp_e == BClose(blk.id, blk.h)
    IN [content |-> splice(cont, tmp_b, tmp_e, buffer),
        err |-> IF found_region(cont, tmp_b, tmp_e) THEN errs
                ELSE Append(errs, Err("block", "", blk.id, blk.h))]

\* erase every token of kind k, in the text and in attribute values
Erase(cont, k) ==
    LET f(v) == SelectSeq(v, LAMBDA t : t.k # k)
    IN f([i \in 1..Len(cont) |-> MapAttrs(cont[i], f)])

\* "Remove remaining block open markers", then the close markers
remove_sentinels(cont) == Erase(Erase(cont, "bopen"), "bclose")

\* one match of rx_inlines of which the span is written only if the style is known
expand_match_known(r, kind, id, span, body) ==
    [s |-> IF body[1] = <<>> /\ body[2] = <<>> THEN r.s
           ELSE r.s \o body[1] \o span \o body[2],
     did |-> TRUE,
     err |-> IF body[1] = <<>> /\ body[2] = <<>>
             THEN Append(r.err, Err("inline", kind, id, 0))
             ELSE r.err]

\* One match of rx_inlines: body.first, the span, body.second are written in its
\* place; a style with neither is reported. r is [s, did, err].
expand_match(r, kind, id, span, body) ==
    [s |-> r.s \o body[1] \o span \o body[2],
     did |-> TRUE,
     err |-> IF body[1] = <<>> /\ body[2] = <<>>
             THEN Append(r.err, Err("inline", kind, id, 0))
             ELSE r.err]

\* rx_inlines: U+E011 ([^U+E012]+?):([^U+E012:]+) U+E012 ([^U+E011-U+E013]*) U+E013,
\* each match replaced by open body close; r is [s, did, err]
RECURSIVE expand_inlines(_, _, _, _)
expand_inlines(cont, i, st, r) ==
    IF i > Len(cont) THEN r
    ELSE IF IsIOpen(cont[i]) /\ BodyEnd(cont, i) < Len(cont)
            /\ IsIClose(cont[BodyEnd(cont, i) + 1])
    THEN expand_inlines(cont, BodyEnd(cont, i) + 2, st,
             expand_match(r, cont[i].n, cont[i].id,
                          SubStr(cont, i + 1, BodyEnd(cont, i)),
                          style_get(st, cont[i].n, cont[i].id)))
    ELSE expand_inlines(cont, i + 1, st, [r EXCEPT !.s = Append(@, cont[i])])

\* rx_prots: U+E020 ([^U+E021]+?):([^U+E021:]+) U+E021, replaced by open close
RECURSIVE expand_prots(_, _, _, _)
expand_prots(cont, i, st, r) ==
    IF i > Len(cont) THEN r
    ELSE LET body == style_get(st, cont[i].n, cont[i].id)
         IN IF IsPOpen(cont[i])
            THEN expand_prots(cont, i + 1, st,
                     [s |-> r.s \o body[1] \o body[2],
                      did |-> TRUE,
                      err |-> IF body[1] = <<>> /\ body[2] = <<>>
                              THEN Append(r.err, Err("prot", cont[i].n, cont[i].id, 0))
                              ELSE r.err])
            ELSE expand_prots(cont, i + 1, st, [r EXCEPT !.s = Append(@, cont[i])])

\* one iteration of while (did): yields [s, did, err]
expand_pass(cont, st, errs) ==
    LET r == expand_inlines(cont, 1, st, [s |-> <<>>, did |-> FALSE, err |-> errs])
    IN expand_prots(r.s, 1, st, [s |-> <<>>, did |-> r.did, err |-> r.err])

----------------------------------------------------------------------------
(* DOCX adapter *)

\* TF_SENTINEL
Sentinel == Tok("sent", "", 0, 0, <<>>)

\* index of the first child element named nm from i on, 0 if none
RECURSIVE child_named(_, _, _)
child_named(c, i, nm) ==
    IF i > Len(c) THEN 0
    ELSE IF c[i].t = "e" /\ c[i].n = nm THEN i ELSE child_named(c, i + 1, nm)

\* size of the node set of ".//w:t" below the children c
RECURSIVE count_wt(_)
count_wt(c) ==
    IF c = <<>> THEN 0
    ELSE (IF Head(c).t = "e" /\ Head(c).n = "w:t" THEN 1 ELSE 0)
         + count_wt(Head(c).c) + count_wt(Tail(c))

\* the style kind of a run, from "<w:b/>" and "<w:i/>" in its dump
run_type(tag) ==
    LET b == FindEq(tag, 1, ETag("w:b", <<>>)) # 0
        i == FindEq(tag, 1, ETag("w:i", <<>>)) # 0
    IN IF b /\ i THEN "b+i" ELSE IF b THEN "b" ELSE IF i THEN "i" ELSE "text"

\* One w:t node: its run bp becomes a style of which the run's markup around the
\* text is the open and close, and the delimited text goes to the tf-text element
\* before the run, a new one unless bp->prev is one. out holds the siblings before
\* bp as they are by now.
merge_wt_run(out, st, bp) ==
    LET k == child_named(bp.c, 1, "w:t")
        text == bp.c[k].c[1].s
        tag == Serialize([bp EXCEPT !.c[k].c = <<Text(<<Sentinel>>)>>])
        s == FindEq(tag, 1, Sentinel)
        type == run_type(tag)
        p == style_put(st, type, SubStr(tag, 1, s - 1), SubStr(tag, s + 1, Len(tag)))
        tmp == <<IOpen(type, p[2])>> \o text \o <<IClose>>
    IN [c |-> IF out # <<>> /\ out[Len(out)].t = "e" /\ out[Len(out)].n = "tf-text"
              THEN [out EXCEPT ![Len(out)].c[1].s = @ \o tmp]
              ELSE Append(out, Elem("tf-text", <<>>, <<Text(tmp)>>)),
        st |-> p[1]]

\* an element and the store, once a loop over its children has left them as q
with_children(n, q) == [dom |-> [n EXCEPT !.c = q.c], st |-> q.st]
\* the siblings r.c with one more, and the store of q
with_sibling(r, q) == [c |-> Append(r.c, q.dom), st |-> q.st]

\* "First merge all sibling <w:r><w:t>...</w:t></w:r>": the loop over the w:t
\* nodes below the siblings c, in document order; r is [c, st]
RECURSIVE merge_wt(_, _, _)
merge_wt(c, i, r) ==
    IF i > Len(c) THEN r
    ELSE IF c[i].t = "e" /\ c[i].n = "w:r" /\ child_named(c[i].c, 1, "w:t") # 0
    THEN merge_wt(c, i + 1, merge_wt_run(r.c, r.st, c[i]))
    ELSE IF c[i].t = "e" /\ c[i].c # <<>>
    THEN merge_wt(c, i + 1,
             with_sibling(r, with_children(c[i],
                 merge_wt(c[i].c, 1, [c |-> <<>>, st |-> r.st]))))
    ELSE merge_wt(c, i + 1, [r EXCEPT !.c = Append(@, c[i])])

\* One w:hyperlink: its first child takes its place, the text of that child
\* delimited by a style of kind "a" whose open and close are the hyperlink's tags
merge_hyperlink(r, n, tag, s) ==
    LET p == style_put(r.st, "a", SubStr(tag, 1, s - 1), SubStr(tag, s + 1, Len(tag)))
    IN [c |-> Append(r.c, [n.c[1] EXCEPT
                               !.c[1].s = <<IOpen("a", p[2])>> \o @ \o <<IClose>>]),
        st |-> p[1]]

\* xmlNodeDump of a node whose content is TF_SENTINEL
dump_sentinel(n) == Serialize([n EXCEPT !.c = <<Text(<<Sentinel>>)>>])

\* "Merge <w:hyperlink>...</w:hyperlink> into child <tf-text>": the loop over the
\* hyperlinks below the siblings c
RECURSIVE merge_hyperlinks(_, _, _)
merge_hyperlinks(c, i, r) ==
    IF i > Len(c) THEN r
    ELSE IF c[i].t = "e" /\ c[i].n = "w:hyperlink"
    THEN merge_hyperlinks(c, i + 1,
             merge_hyperlink(r, c[i], dump_sentinel(c[i]),
                             FindEq(dump_sentinel(c[i]), 1, Sentinel)))
    ELSE IF c[i].t = "e" /\ c[i].c # <<>>
    THEN merge_hyperlinks(c, i + 1,
             with_sibling(r, with_children(c[i],
                 merge_hyperlinks(c[i].c, 1, [c |-> <<>>, st |-> r.st]))))
    ELSE merge_hyperlinks(c, i + 1, [r EXCEPT !.c = Append(@, c[i])])

\* the hyperlinks merged after the runs, whose loop left a
hyperlinks_after(a) == merge_hyperlinks(a.c, 1, [c |-> <<>>, st |-> a.st])

\* the body of the loop over "//w:p": a paragraph with at most one w:t is skipped
merge_paragraph(p, st) ==
    IF count_wt(p.c) <= 1 THEN [dom |-> p, st |-> st]
    ELSE with_children(p, hyperlinks_after(merge_wt(p.c, 1, [c |-> <<>>, st |-> st])))

\* the loop over the node set of "//w:p": the children of the body; r is [c, st]
RECURSIVE merge_paragraphs(_, _, _)
merge_paragraphs(c, i, r) ==
    IF i > Len(c) THEN r
    ELSE IF c[i].t = "e" /\ c[i].n = "w:p"
    THEN merge_paragraphs(c, i + 1, with_sibling(r, merge_paragraph(c[i], r.st)))
    ELSE merge_paragraphs(c, i + 1, [r EXCEPT !.c = Append(@, c[i])])

\* docx_merge_wt(state, xml); yields [dom, st]
docx_merge_wt(dom, st) ==
    with_children(dom,
        with_sibling([c |-> <<>>, st |-> st],
            with_children(dom.c[1],
                merge_paragraphs(dom.c[1].c, 1, [c |-> <<>>, st |-> st]))))

\* the XPath calls of docx_merge_wt that can return a null result: making the
\* context, registering the namespace, "//w:p", ".//w:t", ".//w:hyperlink"
MergeFailures == {"ctx", "ns", "rs", "ts", "hs"}

\* the store when docx_merge_wt throws in the paragraph that is child i of the
\* body, on ".//w:t" (ts) or, the runs of the paragraph merged, on
\* ".//w:hyperlink" (hs)
merge_thrown(dom, st, f, i) ==
    LET c == dom.c[1].c
        before == merge_paragraphs(SubStr(c, 1, i - 1), 1, [c |-> <<>>, st |-> st]).st
    IN IF f = "ts" THEN before
       ELSE merge_wt(c[i].c, 1, [c |-> <<>>, st |-> before]).st

\* extract_docx: data.rfind("</tf-text><tf-text>") erased while there is one
RECURSIVE erase_joins(_)
erase_joins(s) ==
    IF Len(s) < 2 THEN s
    ELSE IF s[Len(s) - 1] = CTag("tf-text") /\ s[Len(s)] = OTag("tf-text", <<>>)
    THEN erase_joins(SubStr(s, 1, Len(s) - 2))
    ELSE Append(erase_joins(SubStr(s, 1, Len(s) - 1)), s[Len(s)])

\* the end of the run of [^<>] that starts at p; p - 1 if there is none
RECURSIVE TextRunEnd(_, _)
TextRunEnd(s, p) ==
    IF p <= Len(s) /\ ~IsMarkup(s[p]) /\ s[p].k # "comment"
    THEN TextRunEnd(s, p + 1) ELSE p - 1

\* rx_after_r, rx_after_a: replaceAll("$2$1") of (pat)([^<>]+)
RECURSIVE text_after(_, _, _)
text_after(s, i, pat) ==
    IF i > Len(s) THEN <<>>
    ELSE LET n == Len(pat)
             e == TextRunEnd(s, i + n)
         IN IF i + n - 1 <= Len(s) /\ SubStr(s, i, i + n - 1) = pat /\ e >= i + n
            THEN SubStr(s, i + n, e) \o pat \o text_after(s, e + 1, pat)
            ELSE <<s[i]>> \o text_after(s, i + 1, pat)

\* rx_snip_empty: <w:r><w:t/></w:r> removed
RECURSIVE snip_empty(_)
snip_empty(s) ==
    IF s = <<>> THEN <<>>
    ELSE IF Len(s) >= 3
            /\ SubStr(s, 1, 3) = <<OTag("w:r", <<>>), ETag("w:t", <<>>), CTag("w:r")>>
    THEN snip_empty(SubStr(s, 4, Len(s)))
    ELSE <<Head(s)>> \o snip_empty(Tail(s))

\* rx_snip_tf: </?tf-text> removed
snip_tf(s) == SelectSeq(s, LAMBDA t : t # OTag("tf-text", <<>>) /\ t # CTag("tf-text"))

\* rx_xml_space: "<w:t" before ' ' or '>' becomes "<w:t xml:space="preserve""
xml_space(s) ==
    [i \in 1..Len(s) |->
        IF s[i].n = "w:t" /\ (s[i].k = "otag" \/ (s[i].k = "etag" /\ s[i].a # <<>>))
        THEN [s[i] EXCEPT !.a = <<Attr("xml:space", Str(<<"p">>))>> \o @]
        ELSE s[i]]

\* inject_docx(dom): the data saved as injected.xml
inject_docx(dom) ==
    LET data == Serialize(dom)
        r == text_after(data, 1, <<CTag("w:t"), CTag("w:r")>>)
        a == text_after(r, 1, <<CTag("w:t"), CTag("w:r"), CTag("w:hyperlink")>>)
    IN xml_space(snip_tf(snip_empty(a)))

----------------------------------------------------------------------------
(* Input documents *)

\* sequences over S of length 1..n
RECURSIVE SeqsUpTo(_, _)
SeqsUpTo(S, n) ==
    IF n = 0 THEN {}
    ELSE LET shorter == SeqsUpTo(S, n - 1)
         IN {<<x>> : x \in S} \cup shorter
            \cup {Append(q, x) : q \in shorter, x \in S}

\* the text nodes of an input: whitespace and letters
Texts == {Str(cs) : cs \in SeqsUpTo({" ", "a"}, MaxText)}

\* children of the block element: text, a comment, a protected element, a
\* protected inline, an element with a text-bearing attribute, an inline element
KidNodes ==
    {Text(t) : t \in Texts}
    \cup {Comment,
          Elem("x", <<>>, <<>>),
          Elem("x", <<>>, <<Text(Str(<<" ", "a">>))>>),
          Elem("br", <<>>, <<>>),
          Elem("img", <<Attr("alt", Str(<<"a", " ">>))>>, <<>>)}
    \cup {Elem("b", <<>>, <<Text(t)>>) : t \in Texts}

\* the reader never yields two adjacent text nodes
NoAdjacentText(c) == \A i \in 1..(Len(c) - 1) : ~(c[i].t = "t" /\ c[i + 1].t = "t")

HtmlInputs ==
    {Doc(<<Elem("p", <<>>, c)>>) :
        c \in {k \in SeqsUpTo(KidNodes, MaxKids) : NoAdjacentText(k)}}

\* <w:r> [<w:rPr><w:b/></w:rPr>] <w:t>t</w:t> </w:r>
Run(bold, t) ==
    Elem("w:r", <<>>,
         (IF bold THEN <<Elem("w:rPr", <<>>, <<Elem("w:b", <<>>, <<>>)>>)>> ELSE <<>>)
         \o <<Elem("w:t", <<>>, <<Text(t)>>)>>)

\* the text of a run
RunTexts == {Str(<<"a">>), Str(<<" ", "a">>)}

\* children of a paragraph: runs, a hyperlink around a run, a blank text node
DocxKids ==
    {Run(b, t) : b \in BOOLEAN, t \in RunTexts}
    \cup {Elem("w:hyperlink", <<Attr("r:id", Str(<<"1">>))>>, <<Run(FALSE, Str(<<"a">>))>>),
          Text(Str(<<" ">>))}

DocxInputs ==
    {Doc(<<Elem("w:body", <<>>, <<Elem("w:p", <<>>, c)>>)>>) :
        c \in {k \in SeqsUpTo(DocxKids, MaxKids) : NoAdjacentText(k)}}

\* the files inject() requires in the state folder
StateFiles == {"original", "content.xml", "state.sqlite3"}

\* the header signature of a codec
signature(sf) == IF sf = "apertium" THEN "[transfuse:" ELSE "<STREAMCMD:TRANSFUSE:"

\* inject(): the codec made for the value of stream and the first line; "none"
\* when the format is to be detected and the line has neither signature
detect_visl_first(sel, hdr) ==
    IF sel = "detect"
    THEN IF "<STREAMCMD:TRANSFUSE:" \in hdr.sigs THEN "visl"
         ELSE IF "[transfuse:" \in hdr.sigs THEN "apertium"
         ELSE "none"
    ELSE IF sel = "apertium" THEN "apertium"
    ELSE "visl"

detect(sel, hdr) ==
    IF sel = "detect"
    THEN IF "[transfuse:" \in hdr.sigs THEN "apertium"
         ELSE IF "<STREAMCMD:TRANSFUSE:" \in hdr.sigs THEN "visl"
         ELSE "none"
    ELSE IF sel = "apertium" THEN "apertium"
    ELSE "visl"

\* StreamBase::get_tmpdir(): the folder the header of this codec names, "" when
\* the line has no such header
get_tmpdir(sf, hdr) == IF signature(sf) \in hdr.sigs THEN hdr.dir ELSE ""

\* inject(): the state folder used, the argument unless it is empty
state_folder(dir, sf, hdr) == IF dir = "" THEN get_tmpdir(sf, hdr) ELSE dir

\* inject(): the exception thrown before content.xml is loaded, "" when none is
start_error(sf, dir, fold) ==
    IF sf = "none" THEN "Could not detect input stream format"
    ELSE IF dir = "" THEN "Could not read state folder path from Transfuse stream header"
    ELSE IF ~fold.exists THEN "State folder did not exist"
    ELSE IF fold.files # StateFiles THEN "Given folder did not have expected state files"
    ELSE ""

\* children of a nested inline element: text, blank text, an inline element, a
\* protected one, a protected-inline one, a block, an inline element that
\* carries tf-protect
InnerKids ==
    {Text(Str(<<"a">>)), Text(Str(<<" ">>)),
     Elem("b", <<>>, <<Text(Str(<<"a">>))>>),
     Elem("x", <<>>, <<>>),
     Elem("br", <<>>, <<>>),
     Elem("p", <<>>, <<Text(Str(<<"a">>))>>),
     Elem("b", <<Attr("tf-protect", <<>>)>>, <<Text(Str(<<"a">>))>>)}

\* inline elements with children, plain, with tf-protect, with a namespace
\* declaration; a chain of inline elements; an inline element in a protected one
Nested ==
    {Elem("i", a, k) :
        a \in {<<>>, <<Attr("tf-protect", <<>>)>>, <<Attr("xmlns:w", Str(<<"a">>))>>},
        k \in {c \in SeqsUpTo(InnerKids, MaxInner) : c # <<>> /\ NoAdjacentText(c)}}
    \cup {Elem("i", <<>>, <<Elem("i", <<>>, <<Elem("b", <<>>, <<Text(Str(<<"a">>))>>)>>)>>),
          Elem("x", <<>>, <<Text(Str(<<"a">>)), Elem("b", <<>>, <<Text(Str(<<"a">>))>>)>>),
          Elem("br", <<>>, <<Text(Str(<<"a">>)), Elem("b", <<>>, <<Text(Str(<<"a">>))>>)>>)}

\* inline elements nested four deep, each starting with a protected-inline
\* element; an inline element that starts and ends with one; text between an
\* inline element and a protected-inline one
Special ==
    LET a == Text(Str(<<"a">>))
        br == Elem("br", <<>>, <<>>)
        b1 == Elem("b", <<>>, <<br, a>>)
        i2 == Elem("i", <<>>, <<br, b1>>)
        b3 == Elem("b", <<>>, <<br, i2>>)
        i4 == Elem("i", <<>>, <<br, b3>>)
    IN {Doc(<<Elem("p", <<>>, <<a, i4>>)>>),
        Doc(<<Elem("p", <<>>, <<a, Elem("i", <<>>, <<br, a, br>>)>>)>>),
        Doc(<<Elem("p", <<>>, <<Elem("b", <<>>, <<a>>), a, br, a>>)>>)}

\* a nested element alone in its block, or with text or blank text around it,
\* or with a protected-inline element and text after it
StyleInputs ==
    {Doc(<<Elem("p", <<>>, l \o <<e>> \o r)>>) :
        e \in Nested,
        l \in {<<>>, <<Text(Str(<<" ">>))>>, <<Text(Str(<<"a">>))>>},
        r \in {<<>>, <<Text(Str(<<" ">>))>>, <<Text(Str(<<"a">>))>>,
               <<Elem("br", <<>>, <<>>), Text(Str(<<"a">>))>>}}
    \cup Special

\* elements one level above text: a block, a container, a protected element,
\* around text, around blank text, or carrying tf-protect
ExtractLeaves ==
    {Elem(n, a[1], <<Text(a[2])>>) :
        n \in {"p", "div", "x"},
        a \in {<<<<>>, Str(<<"a">>)>>, <<<<>>, Str(<<" ">>)>>,
               <<<<Attr("tf-protect", <<>>)>>, Str(<<"a">>)>>}}

\* children of the outer container: text, blank text, such an element, or a
\* plain one inside a block, a container or a protected element, or after text
\* in a block
ExtractKids ==
    {Text(Str(<<"a">>)), Text(Str(<<" ">>))}
    \cup ExtractLeaves
    \cup {Elem(n, <<>>, <<Elem(m, <<>>, <<Text(Str(<<"a">>))>>)>>) :
            n \in {"p", "div", "x"}, m \in {"p", "div", "x"}}
    \cup {Elem("p", <<>>, <<Text(Str(<<"a">>)), Elem(m, <<>>, <<Text(Str(<<"a">>))>>)>>) :
            m \in {"p", "div", "x"}}

ExtractInputs ==
    {Doc(<<Elem("div", <<>>, c)>>) :
        c \in {k \in SeqsUpTo(ExtractKids, MaxInner) : k # <<>> /\ NoAdjacentText(k)}}

\* the parent tables an adapter may give the DOM
ParentTables == SUBSET {"p", "div"}

\* styles a state folder's store may hold: markup of an inline element, of a
\* protected-inline element, and text that holds a delimiter again
ExpandStyles ==
    {Style("b", <<OTag("b", <<>>)>>, <<CTag("b")>>),
     Style("P", <<ETag("br", <<>>)>>, <<>>),
     Style("b", <<IOpen("b", 1)>>, <<IClose>>),
     Style("P", <<POpen("P", 1)>>, <<>>),
     Style("P", <<POpen("P", 2)>>, <<>>)}

\* the stores of at most two styles, none of which names itself; a style's id
\* is its place
ExpandStores ==
    {st \in SeqsUpTo(ExpandStyles, 2) :
        \A i \in 1..Len(st) : \A j \in 1..Len(st[i].open) : st[i].open[j].id # i}

\* content.xml of a state folder: a block of text, of a span, of a span in a
\* span, of a protected-inline marker, of a span and a marker
ExpandContents ==
    {<<OTag("p", <<>>)>> \o x \o <<CTag("p")>> :
        x \in {Str(<<"a">>),
               <<IOpen("b", 1), Ch("a"), IClose>>,
               <<IOpen("b", 2), Ch("a"), IClose>>,
               <<IOpen("b", 1), IOpen("b", 2), Ch("a"), IClose, IClose>>,
               <<IOpen("b", 2), Ch("a"), IOpen("b", 1), Ch("a"), IClose, IClose>>,
               <<POpen("P", 1)>>,
               <<POpen("P", 2), Ch("a")>>,
               <<IOpen("b", 1), Ch("a"), IClose, POpen("P", 2)>>,
               <<IOpen("b", 3), Ch("a"), IClose>>}}

\* the documents inject()'s first lines are run on
StartHtml == {Doc(<<Elem("p", <<>>, <<Text(Str(<<"a">>)), Elem("b", <<>>, <<Text(Str(<<"a">>))>>)>>)>>)}
StartDocx == {Doc(<<Elem("w:body", <<>>, <<Elem("w:p", <<>>, <<Run(FALSE, Str(<<"a">>))>>)>>)>>)}

\* the values of inject()'s argument stream
Streams == {"detect", "apertium", "visl"}

\* the first lines of a stream: the header signatures found in it, and the
\* folder its header names ("" when it names none)
Headers == [sigs : SUBSET {"[transfuse:", "<STREAMCMD:TRANSFUSE:"}, dir : {"", "d"}]

\* the state folders: one that does not exist, one with any of the files
Folders ==
    {[exists |-> FALSE, files |-> {}]} \cup [exists : {TRUE}, files : SUBSET StateFiles]

----------------------------------------------------------------------------
(* The run: extract, the translator, inject *)

\* the run before its first step, but for the document and for inject()'s
\* arguments
InitRun ==
    /\ pc = "start"
    /\ format \in {"html", "docx"}
    /\ content = <<>>
    /\ styles = <<>>
    /\ stream = <<>>
    /\ blocks = 0
    /\ tin = <<>>
    /\ tpos = 0
    /\ tmode = "none"
    /\ err = <<>>
    /\ did = FALSE
    /\ txn = "none"
    /\ tags_prot = (IF format = "html" THEN html_tags_prot ELSE {})
    /\ tags_parents_allow = {}
    /\ tags_parents_direct = {}
    /\ output = <<>>
    /\ sformat = "none"
    /\ fatal = ""

\* any document; inject() is run on the stream extract wrote, format detected,
\* in the state folder extract made
Init ==
    /\ InitRun
    /\ input \in (IF format = "html" THEN HtmlInputs ELSE DocxInputs)
    /\ doc = input
    /\ streams = "detect"
    /\ header = [sigs |-> {"[transfuse:"}, dir |-> "d"]
    /\ tmpdir = ""
    /\ folder = [exists |-> TRUE, files |-> StateFiles]

\* a document with nested inline elements, or one DOCX document
InitStyle ==
    /\ InitRun
    /\ input \in (IF format = "html" THEN StyleInputs ELSE StartDocx)
    /\ doc = input
    /\ streams = "detect"
    /\ header = [sigs |-> {"[transfuse:"}, dir |-> "d"]
    /\ tmpdir = ""
    /\ folder = [exists |-> TRUE, files |-> StateFiles]

\* one document of each format; inject() is run with any arguments, on any first
\* line, in any state folder
InitStart ==
    /\ InitRun
    /\ input \in (IF format = "html" THEN StartHtml ELSE StartDocx)
    /\ doc = input
    /\ streams \in Streams
    /\ header \in Headers
    /\ tmpdir \in {"", "d"}
    /\ folder \in Folders

\* a document of blocks and containers, extracted by a DOM with any parent
\* tables, or one DOCX document
InitExtract ==
    /\ pc = "start"
    /\ format \in {"html", "docx"}
    /\ content = <<>>
    /\ styles = <<>>
    /\ stream = <<>>
    /\ blocks = 0
    /\ tin = <<>>
    /\ tpos = 0
    /\ tmode = "none"
    /\ err = <<>>
    /\ did = FALSE
    /\ txn = "none"
    /\ tags_prot = (IF format = "html" THEN html_tags_prot ELSE {})
    /\ tags_parents_allow \in (IF format = "html" THEN ParentTables ELSE {{}})
    /\ tags_parents_direct \in (IF format = "html" THEN ParentTables ELSE {{}})
    /\ output = <<>>
    /\ sformat = "none"
    /\ fatal = ""
    /\ input \in (IF format = "html" THEN ExtractInputs ELSE StartDocx)
    /\ doc = input
    /\ streams = "detect"
    /\ header = [sigs |-> {"[transfuse:"}, dir |-> "d"]
    /\ tmpdir = ""
    /\ folder = [exists |-> TRUE, files |-> StateFiles]

\* a run from its first step on one document of each format, or inject() run
\* on an empty stream in a state folder with any content.xml and any store
InitExpand ==
    \/ InitStart /\ streams = "detect" /\ header.sigs = {"[transfuse:"}
          /\ header.dir = "d" /\ tmpdir = "" /\ folder.exists
          /\ folder.files = StateFiles
    \/ /\ pc = "begin"
       /\ format = "html"
       /\ input \in StartHtml
       /\ doc = input
       /\ content \in ExpandContents
       /\ styles \in ExpandStores
       /\ stream = <<>>
       /\ blocks = 0
       /\ tin = <<>>
       /\ tpos = 0
       /\ tmode = "same"
       /\ err = <<>>
       /\ did = FALSE
       /\ txn = "none"
       /\ tags_prot = html_tags_prot
       /\ tags_parents_allow = {}
       /\ tags_parents_direct = {}
       /\ output = <<>>
       /\ sformat = "none"
       /\ fatal = ""
       /\ streams = "detect"
       /\ header = [sigs |-> {"[transfuse:"}, dir |-> "d"]
       /\ tmpdir = ""
       /\ folder = [exists |-> TRUE, files |-> StateFiles]

\* extract_docx(): docx_merge_wt between state.begin() and state.commit(), and the
\* DOM made of the merged tree; or an XPath call that returns a null result, and
\* the exception thrown: the tree is not used again
DocxMergeWt ==
    /\ pc = "start"
    /\ format = "docx"
    /\ \/ /\ LET r == docx_merge_wt(doc, styles)
             IN doc' = r.dom /\ styles' = r.st
          /\ txn' = "committed"
          /\ tags_parents_allow' = {"tf-text", "w:t"}
          /\ pc' = "merged"
       \/ \E f \in MergeFailures :
              /\ \/ /\ f \in {"ctx", "ns", "rs"}
                    /\ UNCHANGED <<styles, txn>>
                 \/ /\ f \in {"ts", "hs"}
                    /\ \E i \in 1..Len(doc.c[1].c) :
                           /\ doc.c[1].c[i].t = "e"
                           /\ doc.c[1].c[i].n = "w:p"
                           /\ f = "hs" => count_wt(doc.c[1].c[i].c) > 1
                           /\ styles' = merge_thrown(doc, styles, f, i)
                    /\ txn' = "open"
              /\ pc' = "failed"
              /\ UNCHANGED <<doc, tags_parents_allow>>
    /\ UNCHANGED start_vars
    /\ UNCHANGED <<format, input, content, stream, blocks, tin, tpos, tmode, err, did,
                   tags_prot, tags_parents_direct, output>>

\* DOM::save_spaces()
SaveSpaces ==
    /\ \/ pc = "start" /\ format = "html"
       \/ pc = "merged"
    /\ doc' = save_spaces(doc)
    /\ pc' = "spaced"
    /\ UNCHANGED start_vars
    /\ UNCHANGED <<format, input, content, styles, stream, blocks, tin, tpos, tmode,
                   err, did, txn, tags_prot, tags_parents_allow, tags_parents_direct,
                   output>>

\* DOM::save_styles(): the serialisation, the promotion of protected inlines, the
\* cleanup; the adapter then reads the styled text back as the tree
SaveStyles ==
    /\ pc = "spaced"
    /\ format = "html"
    /\ LET r == save_styles(doc, FALSE, styles, FALSE)
           q == protect_to_styles(r.s, r.st)
       IN /\ content' = cleanup_styles(q.s)
          /\ styles' = q.st
          /\ doc' = Parse(content')
    /\ pc' = "styled"
    /\ UNCHANGED start_vars
    /\ UNCHANGED <<format, input, stream, blocks, tin, tpos, tmode, err, did, txn,
                   tags_prot, tags_parents_allow, tags_parents_direct, output>>

\* extract_docx(): the tree saved, cleaned up, adjacent tf-text elements joined, and
\* read back as styled.xml
DocxStyled ==
    /\ pc = "spaced"
    /\ format = "docx"
    /\ content' = erase_joins(cleanup_styles(Serialize(doc)))
    /\ doc' = Parse(content')
    /\ pc' = "styled"
    /\ UNCHANGED start_vars
    /\ UNCHANGED <<format, input, styles, stream, blocks, tin, tpos, tmode, err, did,
                   txn, tags_prot, tags_parents_allow, tags_parents_direct, output>>

\* DOM::extract_blocks(), and the tree saved as content.xml
ExtractBlocks ==
    /\ pc = "styled"
    /\ LET r == extract_blocks([dom |-> doc, stream |-> <<>>, blocks |-> blocks],
                               FALSE, tags_parents_allow, tags_parents_direct)
       IN /\ doc' = r.dom
          /\ stream' = r.stream
          /\ blocks' = r.blocks
          /\ content' = Serialize(r.dom)
    /\ pc' = "extracted"
    /\ UNCHANGED start_vars
    /\ UNCHANGED <<format, input, styles, tin, tpos, tmode, err, did, txn, tags_prot,
                   tags_parents_allow, tags_parents_direct, output>>

\* bodies a translator returns in place of a block's
NewBodies == {<<>>, Str(<<" ", "z", "&", " ">>)}

\* every inline delimiter of s made one of a style the store does not hold
Unknown(s) ==
    [i \in 1..Len(s) |-> IF IsIOpen(s[i]) THEN IOpen(s[i].n, s[i].id + Len(styles))
                         ELSE s[i]]

\* The translator: returns the stream as it is, or drops, rewrites or repeats one
\* block, or damages the style ids of one, or adds a block the document lacks.
Translate ==
    /\ pc = "extracted"
    /\ \/ tin' = stream /\ tmode' = "same"
       \/ \E k \in 1..Len(stream) :
              \/ /\ tin' = SubStr(stream, 1, k - 1) \o SubStr(stream, k + 1, Len(stream))
                 /\ tmode' = "drop"
              \/ /\ \E b \in NewBodies : tin' = [stream EXCEPT ![k].body = b]
                 /\ tmode' = "edit"
              \/ /\ tin' = Append(stream, stream[k])
                 /\ tmode' = "repeat"
              \/ /\ \E j \in 1..Len(stream[k].body) : IsIOpen(stream[k].body[j])
                 /\ tin' = [stream EXCEPT ![k].body = Unknown(@)]
                 /\ tmode' = "unknown"
       \/ /\ tin' = <<Block(blocks + 1, 0, Str(<<"z">>))>> \o stream
          /\ tmode' = "extra"
    /\ pc' = "begin"
    /\ UNCHANGED start_vars
    /\ UNCHANGED <<format, input, doc, content, styles, stream, blocks, tpos, err, did,
                   txn, tags_prot, tags_parents_allow, tags_parents_direct, output>>

\* inject(): the first line read, the codec made, the state folder found and
\* checked; content.xml is loaded when nothing was thrown
InjectStart ==
    /\ pc = "begin"
    /\ sformat' = detect(streams, header)
    /\ tmpdir' = (IF sformat' = "none" THEN tmpdir
                  ELSE state_folder(tmpdir, sformat', header))
    /\ fatal' = start_error(sformat', tmpdir', folder)
    /\ pc' = (IF fatal' = "" THEN "inject" ELSE "aborted")
    /\ UNCHANGED <<streams, header, folder>>
    /\ UNCHANGED <<format, input, doc, content, styles, stream, blocks, tin, tpos,
                   tmode, err, did, txn, tags_prot, tags_parents_allow,
                   tags_parents_direct, output>>

\* inject(): one block read by get_block and spliced into content
InjectBlock ==
    /\ pc = "inject"
    /\ tpos < Len(tin)
    /\ LET r == inject_block(content, err, tin[tpos + 1])
       IN content' = r.content /\ err' = r.err
    /\ tpos' = tpos + 1
    /\ UNCHANGED start_vars
    /\ UNCHANGED <<pc, format, input, doc, styles, stream, blocks, tin, tmode, did, txn,
                   tags_prot, tags_parents_allow, tags_parents_direct, output>>

\* inject(): end of the stream; the remaining block markers are removed
RemoveSentinels ==
    /\ pc = "inject"
    /\ tpos = Len(tin)
    /\ content' = remove_sentinels(content)
    /\ pc' = "cleanup"
    /\ UNCHANGED start_vars
    /\ UNCHANGED <<format, input, doc, styles, stream, blocks, tin, tpos, tmode, err,
                   did, txn, tags_prot, tags_parents_allow, tags_parents_direct,
                   output>>

\* inject(): cleanup_styles(content), and the expansion loop entered
CleanupContent ==
    /\ pc = "cleanup"
    /\ content' = cleanup_styles(content)
    /\ did' = TRUE
    /\ pc' = "expand"
    /\ UNCHANGED start_vars
    /\ UNCHANGED <<format, input, doc, styles, stream, blocks, tin, tpos, tmode, err,
                   txn, tags_prot, tags_parents_allow, tags_parents_direct, output>>

\* inject(): one iteration of while (did)
ExpandPass ==
    /\ pc = "expand"
    /\ did
    /\ LET r == expand_pass(content, styles, err)
       IN content' = r.s /\ did' = r.did /\ err' = r.err
    /\ UNCHANGED start_vars
    /\ UNCHANGED <<pc, format, input, doc, styles, stream, blocks, tin, tpos, tmode,
                   txn, tags_prot, tags_parents_allow, tags_parents_direct, output>>

\* inject(): the content read as a tree, of which a DOM is made: its tag tables
\* are those of a DOM just constructed
ReadContent ==
    /\ pc = "expand"
    /\ ~did
    /\ doc' = Parse(content)
    /\ tags_prot' = {}
    /\ tags_parents_allow' = {}
    /\ tags_parents_direct' = {}
    /\ pc' = "read"
    /\ UNCHANGED start_vars
    /\ UNCHANGED <<format, input, content, styles, stream, blocks, tin, tpos, tmode,
                   err, did, txn, output>>

\* DOM::restore_spaces(): the pass over text nodes, then create_spaces
restore(dom) == create_spaces(restore_spaces(dom))

\* inject(): dom->restore_spaces()
Restore ==
    /\ pc = "read"
    /\ doc' = restore(doc)
    /\ pc' = "restored"
    /\ UNCHANGED start_vars
    /\ UNCHANGED <<format, input, content, styles, stream, blocks, tin, tpos, tmode,
                   err, did, txn, tags_prot, tags_parents_allow, tags_parents_direct,
                   output>>

\* inject(): fname = inject_docx(*dom)
InjectDocx ==
    /\ pc = "restored"
    /\ format = "docx"
    /\ output' = inject_docx(doc)
    /\ pc' = "done"
    /\ UNCHANGED start_vars
    /\ UNCHANGED <<format, input, doc, content, styles, stream, blocks, tin, tpos,
                   tmode, err, did, txn, tags_prot, tags_parents_allow,
                   tags_parents_direct>>

Next ==
    \/ DocxMergeWt
    \/ SaveSpaces
    \/ SaveStyles
    \/ DocxStyled
    \/ ExtractBlocks
    \/ Translate
    \/ InjectStart
    \/ InjectBlock
    \/ RemoveSentinels
    \/ CleanupContent
    \/ ExpandPass
    \/ ReadContent
    \/ Restore
    \/ InjectDocx

Spec == Init /\ [][Next]_vars

\* the same run from InitStart
SpecStart == InitStart /\ [][Next]_vars

\* the same run from InitStyle
SpecStyle == InitStyle /\ [][Next]_vars

SpecExtract == InitExtract /\ [][Next]_vars

\* inject() is one thread: a step of the loop that can be taken is taken
SpecExpand ==
    InitExpand /\ [][Next]_vars /\ WF_vars(ExpandPass) /\ WF_vars(ReadContent)

----------------------------------------------------------------------------
(* Properties *)

\* the end of an attribute value in the flattened text
Quote == Tok("quote", "", 0, 0, <<>>)

\* the attribute values of a tag, each followed by its closing quote
RECURSIVE FlatAttrs(_)
FlatAttrs(a) ==
    IF a = <<>> THEN <<>> ELSE Head(a).av \o <<Quote>> \o FlatAttrs(Tail(a))

\* A string in the order of its bytes: every tag is followed by the tokens of
\* its attribute values, as these stand inside it
RECURSIVE Flat(_)
Flat(s) ==
    IF s = <<>> THEN <<>>
    ELSE <<[Head(s) EXCEPT !.a = [j \in 1..Len(@) |-> Attr(@[j].an, <<>>)]]>>
         \o FlatAttrs(Head(s).a) \o Flat(Tail(s))

\* how many times the token t stands in s
Count(s, t) == Cardinality({i \in 1..Len(s) : s[i] = t})
\* how many tokens of kind k stand in s
CountKind(s, k) == Cardinality({i \in 1..Len(s) : s[i].k = k})

\* whether a comment stands in the tree
RECURSIVE HasComment(_)
HasComment(n) == n.t = "c" \/ \E i \in 1..Len(n.c) : HasComment(n.c[i])

\* C1: extraction followed by injection of the unchanged stream yields a document
\* identical to the input document (stated of HTML documents without comments; the
\* tree inject() hands to the adapter is compared with the input)
C1_RoundTrip ==
    (pc = "restored" /\ format = "html" /\ tmode = "same" /\ ~HasComment(input))
        => Serialize(doc) = Serialize(input)

\* C2: after extract_blocks every identifier written to the stream differs from
\* every other, the document holds exactly one open and one close sentinel of it,
\* the open before the close, with the block's text between them, no sentinel
\* belongs to no block, and without the sentinels the document is what it was
C2_BlockSentinels ==
    [][ExtractBlocks =>
        LET flat == Flat(content')
        IN /\ \A i, j \in 1..Len(stream') :
                  i # j => <<stream'[i].id, stream'[i].h>> # <<stream'[j].id, stream'[j].h>>
           /\ \A i \in 1..Len(stream') :
                  LET o == BOpen(stream'[i].id, stream'[i].h)
                      c == BClose(stream'[i].id, stream'[i].h)
                  IN /\ Count(flat, o) = 1
                     /\ Count(flat, c) = 1
                     /\ FindEq(flat, 1, o) < FindEq(flat, 1, c)
                     /\ SubStr(flat, FindEq(flat, 1, o) + 1, FindEq(flat, 1, c) - 1)
                            = append_xml(stream'[i].body)
           /\ CountKind(flat, "bopen") = Len(stream')
           /\ CountKind(flat, "bclose") = Len(stream')
           /\ Flat(remove_sentinels(content')) = Flat(Serialize(doc))
    ]_vars

\* C2 witness: two blocks were extracted, one of them from an attribute value
C2_Witness ==
    /\ pc = "extracted"
    /\ Len(stream) >= 2
    /\ \E i \in 1..Len(content) : \E j \in 1..Len(content[i].a) :
           CountKind(content[i].a[j].av, "bopen") = 1

\* whether every inline delimiter of s carries a (kind, id) the store st resolves to
\* markup
Resolved(s, st) ==
    \A i \in 1..Len(s) :
        s[i].k \in {"iopen", "popen"} =>
            /\ StyleKnown(st, s[i].n, s[i].id)
            /\ style_get(st, s[i].n, s[i].id) # <<<<>>, <<>>>>

\* C3: from docx_merge_wt and save_styles on to the extracted stream, every inline
\* delimiter in the tree, in the interim text and in the blocks carries a kind and
\* an id that style_put returned in this run, which the store resolves to markup
C3_DelimitersResolve ==
    pc \in {"merged", "spaced", "styled", "extracted"} =>
        /\ Resolved(Flat(Serialize(doc)), styles)
        /\ Resolved(Flat(content), styles)
        /\ \A i \in 1..Len(stream) : Resolved(stream[i].body, styles)
        /\ \A i \in 1..Len(styles) :
               Resolved(Flat(styles[i].open), styles) /\ Resolved(Flat(styles[i].close), styles)

\* C3 witness: the styled text of an HTML document holds a delimiter written by
\* save_styles and one written by protect_to_styles
C3_Witness ==
    /\ pc = "styled"
    /\ format = "html"
    /\ \E i, j \in 1..Len(content) :
           /\ IsIOpen(content[i]) /\ content[i].n = "P"
           /\ IsIOpen(content[j]) /\ content[j].n \in tags_inline

\* whether no tag of s and no attribute of a tag of s has a name that begins with tf-
NoSidecar(s) ==
    \A i \in 1..Len(s) :
        /\ ~(IsMarkup(s[i]) /\ s[i].n \in {"tf-text", "tf-protect"})
        /\ \A j \in 1..Len(s[i].a) : ~IsTfName(s[i].a[j].an)

\* the restored tree of an HTML document has no element and no attribute named tf-
HtmlSidecarClean ==
    (pc = "restored" /\ format = "html") => NoSidecar(Serialize(doc))

\* C4: the document the DOCX adapter emits after the restore operation has no
\* element and no attribute whose name begins with tf-
C4_SidecarClean ==
    pc = "done" => NoSidecar(output)

\* the text children and the element children of a node, in document order
TextKids(n) == SelectSeq(n.c, LAMBDA x : x.t = "t")
ElemKids(n) == SelectSeq(n.c, LAMBDA x : x.t = "e")

\* Whether the text nodes of b have the leading and trailing whitespace runs of the
\* text nodes of a at the same position: under elements at the same position that
\* hold as many text nodes, the k-th text node is compared with the k-th. Subtrees
\* of protected elements are left out.
RECURSIVE SameSpaces(_, _)
SameSpaces(a, b) ==
    (a.n \notin html_tags_prot) =>
        /\ Len(TextKids(a)) = Len(TextKids(b)) =>
               \A k \in 1..Len(TextKids(a)) :
                   /\ HeadWs(TextKids(a)[k].s) = HeadWs(TextKids(b)[k].s)
                   /\ TailWs(TextKids(a)[k].s) = TailWs(TextKids(b)[k].s)
        /\ Len(ElemKids(a)) = Len(ElemKids(b)) =>
               \A k \in 1..Len(ElemKids(a)) : SameSpaces(ElemKids(a)[k], ElemKids(b)[k])

\* whether the translator returned block i as it was, or returned other text with
\* other whitespace around it for a block that was plain text
SpacesEdit(i) ==
    \/ tin[i] = stream[i]
    \/ /\ ~AllWs(tin[i].body)
       /\ \A j \in 1..Len(stream[i].body) : stream[i].body[j].k = "ch"

\* C5: after save_spaces, a stream returned unchanged or with the whitespace around
\* a block's text changed, and the restore operation, the text at each position of
\* the tree has the leading and the trailing whitespace run of the input text node
\* at that position
C5_SpacesPreserved ==
    (/\ pc = "restored"
     /\ format = "html"
     /\ tmode \in {"same", "edit"}
     /\ \A i \in 1..Len(tin) : SpacesEdit(i))
        => SameSpaces(input, doc)

\* C6: the string cleanup_styles yields, in extraction and in injection, is one that
\* cleanup_styles leaves as it is
C6_CleanupIdempotent ==
    [][(SaveStyles \/ CleanupContent) => cleanup_styles(content') = content']_vars

\* the protected elements of a tree in document order, each with its attributes
\* and its subtree
RECURSIVE ProtSubtrees(_), ProtSubtreesAll(_)
ProtSubtrees(n) ==
    IF n.t = "e" /\ n.n \in html_tags_prot THEN <<n>> ELSE ProtSubtreesAll(n.c)
ProtSubtreesAll(c) ==
    IF c = <<>> THEN <<>> ELSE ProtSubtrees(Head(c)) \o ProtSubtreesAll(Tail(c))

\* C7: save_spaces, extract_blocks and the restore operation (restore_spaces, then
\* create_spaces) leave every protected element of an HTML document as it was:
\* its attributes, its children and the text in it
C7_ProtectedUntouched ==
    [][((SaveSpaces \/ ExtractBlocks \/ Restore) /\ format = "html")
          => ProtSubtrees(doc') = ProtSubtrees(doc)]_vars

\* the blocks of the extracted stream that the translated stream has no block for
Dropped ==
    {i \in 1..Len(stream) :
        \A j \in 1..Len(tin) : <<tin[j].id, tin[j].h>> # <<stream[i].id, stream[i].h>>}

\* A flattened document with every region from an open sentinel to its close
\* replaced: by the trimmed, escaped body of the block of blks that has its id, or,
\* if blks has none, by the text between the sentinels
RECURSIVE Filled(_, _)
Filled(flat, blks) ==
    IF flat = <<>> THEN <<>>
    ELSE IF Head(flat).k = "bopen"
    THEN LET c == FindEq(flat, 2, BClose(Head(flat).id, Head(flat).h))
             js == {j \in 1..Len(blks) :
                       blks[j].id = Head(flat).id /\ blks[j].h = Head(flat).h}
         IN (IF js = {} THEN SubStr(flat, 2, c - 1)
             ELSE append_xml(trim(blks[CHOOSE j \in js : TRUE].body)))
            \o Filled(SubStr(flat, c + 1, Len(flat)), blks)
    ELSE <<Head(flat)>> \o Filled(Tail(flat), blks)

\* after the sentinel removal of a run whose translator dropped a block, no sentinel
\* remains and the place of the dropped block holds the text kept at extraction
DroppedKept ==
    (pc = "cleanup" /\ tmode = "drop") =>
        /\ CountKind(Flat(content), "bopen") = 0
        /\ CountKind(Flat(content), "bclose") = 0
        /\ Flat(content) = Filled(Flat(Serialize(doc)), tin)

\* at the end of inject() the error stream names every dropped block
DroppedLogged ==
    (pc = "restored" /\ tmode = "drop") =>
        \A i \in Dropped :
            \E k \in 1..Len(err) : err[k].id = stream[i].id /\ err[k].h = stream[i].h

\* C8: when the translated stream lacks a block that extraction emitted, the place
\* of the block holds the original text, no sentinel remains in the content, and
\* the dropped identifier is written to the error stream
C8_DroppedBlock == DroppedKept /\ DroppedLogged

\* a node without the whitespace its siblings left on it
Unspaced(n) ==
    [n EXCEPT !.a = SelectSeq(@, LAMBDA x : x.an \notin {"tf-space-before", "tf-space-after"})]

\* the protected elements of a tree, each without tf-space-before and tf-space-after
ProtKept(d) == [i \in 1..Len(ProtSubtrees(d)) |-> Unspaced(ProtSubtrees(d)[i])]

\* C7, amended: save_spaces, extract_blocks and the restore operation change nothing
\* in a protected element of an HTML document but its attributes tf-space-before
\* and tf-space-after, which hold the whitespace of the text next to it; its other
\* attributes, its children and the text in it stay, and the tree injection ends
\* with has every protected element as the input has it
C7_ProtectedKept ==
    /\ [][((SaveSpaces \/ ExtractBlocks \/ Restore) /\ format = "html")
            => ProtKept(doc') = ProtKept(doc)]_vars
    /\ []((pc = "restored" /\ format = "html") => ProtSubtrees(doc) = ProtSubtrees(input))

\* C7 witness: save_spaces has left the whitespace of a text node on the protected
\* element before it, which has text of its own
C7_Witness ==
    /\ pc = "spaced"
    /\ \E i \in 1..Len(ProtSubtrees(doc)) :
           /\ HasProp(ProtSubtrees(doc)[i], "tf-space-after")
           /\ ProtSubtrees(doc)[i].c # <<>>

\* a flattened document with every region from o to the next c replaced by buf
RECURSIVE Replaced(_, _, _, _)
Replaced(flat, o, c, buf) ==
    IF flat = <<>> THEN <<>>
    ELSE IF Head(flat) = o /\ FindEq(flat, 2, c) # 0
    THEN buf \o Replaced(SubStr(flat, FindEq(flat, 2, c) + 1, Len(flat)), o, c, buf)
    ELSE <<Head(flat)>> \o Replaced(Tail(flat), o, c, buf)

\* C9: a block read from the stream replaces every region of the content from the
\* open sentinel of its id to the close sentinel that follows by its trimmed,
\* escaped body, and nothing else of the content changes; when the content has no
\* such region it stays as it is and an error naming the id is written; in both
\* cases inject() goes on to the next block
C9_Splice ==
    [][InjectBlock =>
        LET blk == tin[tpos + 1]
            o == BOpen(blk.id, blk.h)
            c == BClose(blk.id, blk.h)
            flat == Flat(content)
            b == FindEq(flat, 1, o)
        IN /\ pc' = "inject"
           /\ tpos' = tpos + 1
           /\ IF b # 0 /\ FindEq(flat, b + 1, c) # 0
              THEN /\ Flat(content') = Replaced(flat, o, c, Flat(append_xml(trim(blk.body))))
                   /\ err' = err
              ELSE /\ content' = content
                   /\ err' = Append(err, Err("block", "", blk.id, blk.h))
    ]_vars

\* C9 witness: the first block read had no sentinels in the content, which was
\* reported, and the blocks read after it have all been spliced in
C9_Witness ==
    /\ pc = "inject"
    /\ tmode = "extra"
    /\ Len(tin) >= 3
    /\ tpos = Len(tin)
    /\ err = <<Err("block", "", tin[1].id, tin[1].h)>>
    /\ CountKind(Flat(content), "bopen") = 0

\* index of the first inline delimiter of s after i, 0 if there is none
RECURSIVE NextDelim(_, _)
NextDelim(s, i) ==
    IF i >= Len(s) THEN 0
    ELSE IF s[i + 1].k \in {"iopen", "iclose"} THEN i + 1 ELSE NextDelim(s, i + 1)

\* the open delimiters of s that begin a triple: a body without delimiters, then a
\* close delimiter
Triples(s) ==
    {i \in 1..Len(s) :
        IsIOpen(s[i]) /\ NextDelim(s, i) # 0 /\ IsIClose(s[NextDelim(s, i)])}

\* s with every triple expanded: the markup of its style around the body, or the
\* body alone if the store does not hold the style
RECURSIVE Expanded(_, _)
Expanded(s, st) ==
    IF s = <<>> THEN <<>>
    ELSE IF 1 \in Triples(s)
    THEN LET e == NextDelim(s, 1)
             known == StyleKnown(st, s[1].n, s[1].id)
         IN (IF known THEN st[s[1].id].open ELSE <<>>)
            \o SubStr(s, 2, e - 1)
            \o (IF known THEN st[s[1].id].close ELSE <<>>)
            \o Expanded(SubStr(s, e + 1, Len(s)), st)
    ELSE <<Head(s)>> \o Expanded(Tail(s), st)

\* s with every protected-inline marker replaced by the markup of its style
RECURSIVE ExpandedProts(_, _)
ExpandedProts(s, st) ==
    IF s = <<>> THEN <<>>
    ELSE (IF ~IsPOpen(Head(s)) THEN <<Head(s)>>
          ELSE IF StyleKnown(st, Head(s).n, Head(s).id)
          THEN st[Head(s).id].open \o st[Head(s).id].close
          ELSE <<>>)
         \o ExpandedProts(Tail(s), st)

\* C10: a pass of the expansion loop over a triple whose kind and id the store does
\* not hold writes an error naming them, leaves the body of the span in its place
\* without the two delimiters, expands the other triples of the content as well,
\* and stays in the loop
C10_UnknownStyle ==
    [][ExpandPass =>
        /\ pc' = "expand"
        /\ content' = ExpandedProts(Expanded(content, styles), styles)
        /\ SubStr(err', 1, Len(err)) = err
        /\ \A i \in Triples(content) :
               ~StyleKnown(styles, content[i].n, content[i].id) =>
                   \E k \in (Len(err) + 1)..Len(err') :
                       err'[k] = Err("inline", content[i].n, content[i].id, 0)
        /\ Triples(content) # {} => did'
    ]_vars

\* C10 witness: the loop has ended on a content in which the body of a span with
\* an unknown style stands without delimiters, the error was written, and a span
\* with a known style was expanded to its markup
C10_Witness ==
    /\ pc = "expand"
    /\ ~did
    /\ tmode = "unknown"
    /\ \E k \in 1..Len(err) : err[k].what = "inline"
    /\ \A i \in 1..Len(content) : content[i].k \notin {"iopen", "iclose"}
    /\ \E i \in 1..Len(content) : content[i].k = "otag" /\ content[i].n \in tags_inline

----------------------------------------------------------------------------
(* C11: the stream variant, and the errors of inject()'s first lines *)

\* inject() has read the first line and made its codec, or thrown
Started == pc \in {"inject", "aborted", "cleanup", "expand", "read", "restored", "done"}

\* inject() throws with a message, and neither content.xml nor anything made
\* from it is read or changed
Aborts == pc = "aborted" /\ fatal # "" /\ tpos = 0 /\ output = <<>>

\* no step that throws, and no step after it, touches content or the tree
AbortKeeps ==
    [][fatal' # "" => UNCHANGED <<content, doc, styles, err, tpos, output>>]_vars

\* the cases in which inject() must throw: nothing to detect, no folder named,
\* no folder, a file missing
MustAbort ==
    \/ streams = "detect" /\ header.sigs = {}
    \/ tmpdir = ""
    \/ ~folder.exists
    \/ folder.files # StateFiles

\* C11 as stated: an explicit variant is used whatever the first line holds; a
\* detected variant is the line variant iff the line carries "[transfuse:" and
\* the command variant iff it carries "<STREAMCMD:TRANSFUSE:"; inject() aborts
\* with a message, content.xml untouched, when there is neither signature, no
\* folder, or a folder without the expected files.
C11_VariantSelection ==
    /\ [](Started =>
            /\ streams # "detect" => sformat = streams
            /\ streams = "detect" =>
                  /\ sformat = "apertium" <=> "[transfuse:" \in header.sigs
                  /\ sformat = "visl" <=> "<STREAMCMD:TRANSFUSE:" \in header.sigs
            /\ MustAbort => Aborts)
    /\ AbortKeeps

\* C11 amended: the same, but the command variant is detected iff the line
\* carries "<STREAMCMD:TRANSFUSE:" and does not carry "[transfuse:", which is
\* looked for first.
C11_LineSignatureFirst ==
    /\ [](Started =>
            /\ streams # "detect" => sformat = streams
            /\ streams = "detect" =>
                  /\ sformat = "apertium" <=> "[transfuse:" \in header.sigs
                  /\ sformat = "visl" <=>
                        /\ "<STREAMCMD:TRANSFUSE:" \in header.sigs
                        /\ "[transfuse:" \notin header.sigs
            /\ MustAbort => Aborts)
    /\ AbortKeeps

\* a first line with both signatures, detected as the line variant, and the
\* blocks being read
C11_Witness ==
    /\ pc = "inject"
    /\ streams = "detect"
    /\ header.sigs = {"[transfuse:", "<STREAMCMD:TRANSFUSE:"}
    /\ sformat = "apertium"
    /\ fatal = ""

----------------------------------------------------------------------------
(* C12: the order of the translated blocks *)

\* the content after the splice loop has read every block of blks
RECURSIVE splice_all(_, _, _)
splice_all(cont, blks, i) ==
    IF i > Len(blks) THEN cont
    ELSE splice_all(inject_block(cont, <<>>, blks[i]).content, blks, i + 1)

\* the blocks of blks in the order f
Reordered(blks, f) == [i \in 1..Len(blks) |-> blks[f[i]]]

DistinctIds(blks) ==
    \A i, j \in 1..Len(blks) : i # j => <<blks[i].id, blks[i].h>> # <<blks[j].id, blks[j].h>>

NoSentinel(blks) ==
    \A i \in 1..Len(blks) : \A j \in 1..Len(blks[i].body) :
        blks[i].body[j].k \notin {"bopen", "bclose"}

\* C12: when the translated blocks have pairwise distinct ids and no sentinel
\* in their bodies, the splice loop of inject() yields the same content for
\* every order in which the stream holds them.
C12_ReorderedOutput ==
    (pc = "inject" /\ tpos = 0 /\ DistinctIds(tin) /\ NoSentinel(tin)) =>
        \A f \in Permutations(1..Len(tin)) :
            splice_all(content, Reordered(tin, f), 1) = splice_all(content, tin, 1)

\* two blocks of distinct ids, one with a new body, both found in the content
C12_Witness ==
    /\ pc = "inject" /\ tpos = 0 /\ tmode = "edit"
    /\ Len(tin) >= 2 /\ DistinctIds(tin) /\ NoSentinel(tin)
    /\ \A i \in 1..Len(tin) :
           found_region(content, BOpen(tin[i].id, tin[i].h), BClose(tin[i].id, tin[i].h))
    /\ splice_all(content, tin, 1) # content

----------------------------------------------------------------------------
(* C13, C14: the anchors save_spaces writes *)

\* node n carries attribute an with value av
Holds(n, an, av) == HasProp(n, an) /\ PropVal(n, an) = av

\* The anchors next to child i of a that hold ws.  Only child i can have
\* written them: the prefix is written for the first child, the suffix for the
\* last, a sibling's tf-space-after for the text right after it, a sibling's
\* tf-space-before for the text right before it.
Anchors(a, i, ws) ==
    {x \in {"prefix"} : i = 1 /\ Holds(a, "tf-space-prefix", ws)}
    \cup {x \in {"suffix"} : i = Len(a.c) /\ Holds(a, "tf-space-suffix", ws)}
    \cup {x \in {"after"} : i > 1 /\ Holds(a.c[i - 1], "tf-space-after", ws)}
    \cup {x \in {"before"} : i < Len(a.c) /\ Holds(a.c[i + 1], "tf-space-before", ws)}

\* the anchor the enumerated rules give a pure-whitespace child i of b
BlankRule(b, i) ==
    IF i = 1 THEN "prefix"
    ELSE IF i = Len(b.c) THEN "suffix"
    ELSE IF ElementLike(b.c[i - 1]) THEN "after"
    ELSE IF ElementLike(b.c[i + 1]) THEN "before"
    ELSE "none"

\* every pure-whitespace text of b outside protected elements has in a, the
\* same tree after save_spaces, exactly the anchors want(b, i) gives it
RECURSIVE BlankAnchored(_, _, _)
BlankAnchored(b, a, exactly) ==
    \A i \in 1..Len(b.c) :
        IF b.c[i].n \in tags_prot THEN TRUE
        ELSE IF b.c[i].t # "t" THEN BlankAnchored(b.c[i], a.c[i], exactly)
        ELSE AllWs(b.c[i].s) =>
                /\ a.c[i] = b.c[i]
                /\ IF BlankRule(b, i) = "none"
                   THEN ~exactly /\ Anchors(a, i, b.c[i].s) = {}
                   ELSE Anchors(a, i, b.c[i].s) = {BlankRule(b, i)}

\* a step of save_spaces
SaveSpacesStep == pc \in {"start", "merged"} /\ pc' = "spaced"

\* C13 as stated: save_spaces attaches every pure-whitespace text under a
\* non-protected parent to exactly one anchor, the first of parent prefix (no
\* previous sibling), parent suffix (no next sibling), previous sibling's
\* tf-space-after, next sibling's tf-space-before that applies, and to no
\* other.
C13_BlankOneAnchor == [][SaveSpacesStep => BlankAnchored(doc, doc', TRUE)]_vars

\* C13 amended: the same, with at most one anchor: a pure-whitespace text
\* between two siblings of which neither is element-like is attached to none.
C13_BlankFirstRule == [][SaveSpacesStep => BlankAnchored(doc, doc', FALSE)]_vars

\* a blank text between two elements: recorded on the previous one only
C13_Witness ==
    /\ pc = "spaced" /\ format = "html"
    /\ \E i \in 2..(Len(input.c[1].c) - 1) :
           /\ input.c[1].c[i].t = "t" /\ AllWs(input.c[1].c[i].s)
           /\ input.c[1].c[i - 1].n = "b" /\ input.c[1].c[i + 1].n = "b"
           /\ Holds(doc.c[1].c[i - 1], "tf-space-after", input.c[1].c[i].s)
           /\ ~HasProp(doc.c[1].c[i + 1], "tf-space-before")

\* every text of b outside protected elements that is not pure whitespace has
\* its leading and trailing runs recorded in a as C14 says, and is unchanged
RECURSIVE RunsRecorded(_, _)
RunsRecorded(b, a) ==
    \A i \in 1..Len(b.c) :
        IF b.c[i].n \in tags_prot THEN TRUE
        ELSE IF b.c[i].t # "t" THEN RunsRecorded(b.c[i], a.c[i])
        ELSE ~AllWs(b.c[i].s) =>
                LET s == b.c[i].s
                    head == SubStr(s, 1, HeadWs(s))
                    tail == SubStr(s, Len(s) - TailWs(s) + 1, Len(s))
                IN /\ a.c[i] = b.c[i]
                   /\ head # <<>> =>
                        IF i > 1 /\ ElementLike(b.c[i - 1])
                        THEN Holds(a.c[i - 1], "tf-space-after", head)
                        ELSE Holds(a, "tf-space-prefix", head)
                   /\ tail # <<>> =>
                        IF i < Len(b.c) /\ ElementLike(b.c[i + 1])
                        THEN Holds(a.c[i + 1], "tf-space-before", tail)
                        ELSE Holds(a, "tf-space-suffix", tail)

\* C14: for a text that is not pure whitespace, save_spaces records the leading
\* run in the previous sibling's tf-space-after if that sibling is element-like
\* and otherwise in the parent's tf-space-prefix, the trailing run in the next
\* sibling's tf-space-before if element-like and otherwise in the parent's
\* tf-space-suffix, and leaves the text as it is.
C14_RunsRecorded == [][SaveSpacesStep => RunsRecorded(doc, doc')]_vars

----------------------------------------------------------------------------
(* C15: the first pass of the restore operation *)

SpaceAttrs == {"tf-space-prefix", "tf-space-suffix", "tf-space-before", "tf-space-after"}

\* the whitespace saved for the leading side of text child i of b: on the
\* previous sibling, or on the parent when the text is the first child
LeadSaved(b, i) ==
    IF i > 1 /\ HasProp(b.c[i - 1], "tf-space-after")
    THEN <<PropVal(b.c[i - 1], "tf-space-after")>>
    ELSE IF i = 1 /\ HasProp(b, "tf-space-prefix")
    THEN <<PropVal(b, "tf-space-prefix")>>
    ELSE <<>>

\* the whitespace saved for its trailing side
TrailSaved(b, i) ==
    IF i < Len(b.c) /\ HasProp(b.c[i + 1], "tf-space-before")
    THEN <<PropVal(b.c[i + 1], "tf-space-before")>>
    ELSE IF i = Len(b.c) /\ HasProp(b, "tf-space-suffix")
    THEN <<PropVal(b, "tf-space-suffix")>>
    ELSE <<>>

\* s with its leading whitespace replaced by the saved one, if any
LeadReplaced(s, saved) ==
    IF saved = <<>> THEN s ELSE saved[1] \o SubStr(s, HeadWs(s) + 1, Len(s))

\* s with its trailing whitespace replaced by the saved one, if any
TrailReplaced(s, saved) ==
    IF saved = <<>> THEN s ELSE SubStr(s, 1, Len(s) - TailWs(s)) \o saved[1]

\* the attributes of child j of b that a text next to it has used
UsedBySibling(b, j) ==
    {x \in {"tf-space-after"} : j < Len(b.c) /\ b.c[j + 1].t = "t"}
    \cup {x \in {"tf-space-before"} : j > 1 /\ b.c[j - 1].t = "t"}

\* the attributes of b that a text child of it has used
UsedByChild(b) ==
    {x \in {"tf-space-prefix"} : b.c # <<>> /\ b.c[1].t = "t"}
    \cup {x \in {"tf-space-suffix"} : b.c # <<>> /\ b.c[Len(b.c)].t = "t"}

Without(n, names) == [n EXCEPT !.a = SelectSeq(n.a, LAMBDA x : x.an \notin names)]

\* The tree C15 describes: every text with its sides replaced by what was
\* saved for them, every attribute a text has used removed, nothing else
\* changed.
RECURSIVE Pass1(_)
Pass1(b) ==
    Without([b EXCEPT !.c = [i \in 1..Len(b.c) |->
                IF b.c[i].t = "t"
                THEN [b.c[i] EXCEPT !.s = TrailReplaced(LeadReplaced(@, LeadSaved(b, i)),
                                                        TrailSaved(b, i))]
                ELSE Without(Pass1(b.c[i]), UsedBySibling(b, i))]],
            UsedByChild(b))

\* characters of the text nodes of a tree, from child i on
RECURSIVE TextLen(_, _)
TextLen(b, i) ==
    IF i > Len(b.c) THEN (IF i = 1 THEN Len(b.s) ELSE 0)
    ELSE TextLen(b.c[i], 1) + TextLen(b, i + 1)

\* characters of the tf-space-* attributes of a tree: its own and, from child
\* i on, those below it
RECURSIVE AttrLen(_, _), SpaceLen(_, _)
AttrLen(a, j) ==
    IF j > Len(a) THEN 0
    ELSE (IF a[j].an \in SpaceAttrs THEN Len(a[j].av) ELSE 0) + AttrLen(a, j + 1)
SpaceLen(b, i) ==
    IF i > Len(b.c) THEN 0
    ELSE AttrLen(b.c[i].a, 1) + SpaceLen(b.c[i], 1) + SpaceLen(b, i + 1)

\* C15: restore_spaces replaces the leading whitespace of a text node by the
\* tf-space-after of its previous sibling, or by the tf-space-prefix of its
\* parent when it is the first child, and its trailing whitespace by the
\* tf-space-before of its next sibling, or the tf-space-suffix of its parent
\* when it is the last child; each attribute used is removed, so create_spaces
\* adds exactly the whitespace of the attributes the first pass left.
C15_RestorePass1 ==
    pc = "read" =>
        /\ restore_spaces(doc) = Pass1(doc)
        /\ SpaceLen(restore(doc), 1) = 0
        /\ TextLen(restore(doc), 1) =
               TextLen(restore_spaces(doc), 1) + SpaceLen(restore_spaces(doc), 1)

\* a tree of which the first pass uses one attribute and leaves another
C15_Witness ==
    /\ pc = "read"
    /\ SpaceLen(restore_spaces(doc), 1) > 0
    /\ SpaceLen(restore_spaces(doc), 1) < SpaceLen(doc, 1)
    /\ \E i \in 2..Len(doc.c[1].c) :
           /\ doc.c[1].c[i].t = "t"
           /\ HasProp(doc.c[1].c[i - 1], "tf-space-after")

----------------------------------------------------------------------------
(* C16, C17: what save_styles writes for an element *)

\* the parent has a child other than child i that is not blank text
OtherMeaningful(dom, i) ==
    \E j \in 1..Len(dom.c) :
        j # i /\ ~(dom.c[j].t = "t" /\ AllWs(dom.c[j].s))

\* child i is the sole meaningful child of dom, and dom, if inline, is one too
OnlyChild(dom, i, sole) ==
    ~OtherMeaningful(dom, i) /\ (dom.n \in tags_inline => sole)

\* some descendant element is neither inline nor protected-inline
RECURSIVE BlockDescendant(_)
BlockDescendant(e) ==
    \E i \in 1..Len(e.c) :
        /\ e.c[i].t = "e"
        /\ \/ e.c[i].n \notin (tags_inline \cup tags_prot_inline)
           \/ BlockDescendant(e.c[i])

\* own name in prot, inherited protection, or a tf-protect attribute
Protected(e, inherited) == e.n \in tags_prot \/ inherited \/ HasProp(e, "tf-protect")

\* the conditions of C16 for child i of dom
Collapsible(dom, i, inherited, sole) ==
    /\ ~Protected(dom.c[i], inherited)
    /\ dom.c[i].n \in tags_inline
    /\ dom.c[i].c[1].n \notin tags_prot
    /\ ~OnlyChild(dom, i, sole)
    /\ ~BlockDescendant(dom.c[i])

\* The elements below dom from child i on, in document order, each with what
\* C16 says is written for it: an empty-element tag, inline delimiters or an
\* open tag.  Protection is inherited from a protected or protected-inline
\* ancestor.
RECURSIVE Marks(_, _, _, _)
Marks(dom, i, inherited, sole) ==
    IF i > Len(dom.c) THEN <<>>
    ELSE LET e == dom.c[i]
         IN (IF e.t # "e" THEN <<>>
             ELSE IF e.c = <<>> THEN <<[n |-> e.n, k |-> "etag"]>>
             ELSE <<[n |-> e.n,
                     k |-> IF Collapsible(dom, i, inherited, sole)
                           THEN "iopen" ELSE "otag"]>>
                  \o Marks(e, 1, Protected(e, inherited) \/ e.n \in tags_prot_inline,
                           OnlyChild(dom, i, sole)))
            \o Marks(dom, i + 1, inherited, sole)

\* the tokens of the interim text that start an element of the tree
Starts(s) ==
    SelectSeq(s, LAMBDA t : t.k \in {"etag", "otag", "iopen"} /\ t.n # "tf-protect")

\* what the interim text holds for each element, in order
Written(s) == [j \in 1..Len(Starts(s)) |-> [n |-> Starts(s)[j].n, k |-> Starts(s)[j].k]]

\* every inline open delimiter of s names a style of the element's name, with
\* its open tag and its close tag
StylesPut(s, st) ==
    \A j \in 1..Len(s) :
        s[j].k = "iopen" =>
            /\ StyleKnown(st, s[j].n, s[j].id)
            /\ Len(st[s[j].id].open) = 1
            /\ st[s[j].id].open[1].k = "otag" /\ st[s[j].id].open[1].n = s[j].n
            /\ st[s[j].id].close = <<CTag(s[j].n)>>

\* the interim text and the store save_styles makes of the tree
Styled == save_styles(doc, FALSE, styles, FALSE)

RECURSIVE ElemAttrs(_, _, _)
ElemAttrs(dom, i, with_tf) ==
    IF i > Len(dom.c) THEN <<>>
    ELSE (IF dom.c[i].t # "e" THEN <<>>
          ELSE <<EscAttrs(SelectSeq(dom.c[i].a, LAMBDA x : with_tf \/ ~IsTfName(x.an)))>>
               \o ElemAttrs(dom.c[i], 1, with_tf))
         \o ElemAttrs(dom, i + 1, with_tf)

\* the attributes in the open markup written or stored for each element
TagAttrs(s, st) ==
    [j \in 1..Len(Starts(s)) |->
        IF Starts(s)[j].k = "iopen"
        THEN style_get(st, Starts(s)[j].n, Starts(s)[j].id)[1][1].a
        ELSE Starts(s)[j].a]

\* C17 as stated: the open markup save_styles writes or stores for an element
\* holds every attribute whose name does not begin with tf-, and none whose
\* name does.
C17_OtagWithoutTf ==
    (pc = "spaced" /\ format = "html") =>
        TagAttrs(Styled.s, Styled.st) = ElemAttrs(doc, 1, FALSE)

\* C17 amended: the open markup holds every attribute of the element, those
\* whose name begins with tf- included.
C17_OtagAllAttrs ==
    (pc = "spaced" /\ format = "html") =>
        TagAttrs(Styled.s, Styled.st) = ElemAttrs(doc, 1, TRUE)

\* an element with a namespace declaration and a tf-space attribute, another
\* collapsed with a tf-space attribute in its stored open markup
C17_Witness ==
    /\ pc = "spaced" /\ format = "html"
    /\ \E i \in 1..Len(doc.c[1].c) :
           /\ HasProp(doc.c[1].c[i], "xmlns:w")
           /\ HasProp(doc.c[1].c[i], "tf-space-prefix")
    /\ \E j \in 1..Len(Styled.s) :
           /\ Styled.s[j].k = "iopen"
           /\ \E x \in 1..Len(Styled.st[Styled.s[j].id].open[1].a) :
                  IsTfName(Styled.st[Styled.s[j].id].open[1].a[x].an)

----------------------------------------------------------------------------
(* C18: the cases of protect_to_styles *)

\* index of the close delimiter of the span that is open before s[j], 0 if none
RECURSIVE CloseOf(_, _, _)
CloseOf(s, j, d) ==
    IF j > Len(s) THEN 0
    ELSE IF IsIOpen(s[j]) THEN CloseOf(s, j + 1, d + 1)
    ELSE IF IsIClose(s[j]) THEN (IF d = 0 THEN j ELSE CloseOf(s, j + 1, d - 1))
    ELSE CloseOf(s, j + 1, d)

\* index of the open delimiter of the span that is closed after s[j], 0 if none
RECURSIVE OpenOf(_, _, _)
OpenOf(s, j, d) ==
    IF j < 1 THEN 0
    ELSE IF IsIClose(s[j]) THEN OpenOf(s, j - 1, d + 1)
    ELSE IF IsIOpen(s[j]) THEN (IF d = 0 THEN j ELSE OpenOf(s, j - 1, d - 1))
    ELSE OpenOf(s, j - 1, d)

\* start of the run of non-whitespace characters that ends at s[j]
RECURSIVE WordStart(_, _)
WordStart(s, j) ==
    IF j >= 1 /\ s[j].k = "ch" /\ ~IsWs(s[j]) THEN WordStart(s, j - 1) ELSE j + 1

\* What C18 says of the region s[b..e], the first of s: the text up to the end
\* of what the region has become, the tokens of s used, the store.  keep tells
\* whether a region at the edge of a block keeps its tf-protect wrapper.
ClaimRegion(s, b, e, st, keep) ==
    LET pre == SubStr(s, 1, b - 1)
        inner == SubStr(s, b + 1, e - 1)
        sfx == SubStr(s, e + 1, Len(s))
        x == Len(pre) - TailWs(pre)
        y == HeadWs(sfx) + 1
        m == CloseOf(sfx, 1, 0)
        o == OpenOf(pre, x - 1, 0)
        w == WordStart(pre, x)
        p_open == style_put(st, "P", inner, <<>>)
        p_close == style_put(st, "P", <<>>, inner)
    IN IF (x >= 1 /\ IsMarkup(pre[x])) \/ (y <= Len(sfx) /\ IsMarkup(sfx[y]))
       THEN [ns |-> pre \o (IF keep THEN SubStr(s, b, e) ELSE inner),
             last |-> e, st |-> st]
       ELSE IF x >= 1 /\ IsIOpen(pre[x])
       THEN [ns |-> SubStr(pre, 1, x) \o <<IOpen("P", p_open[2])>>
                    \o SubStr(pre, x + 1, Len(pre)) \o SubStr(sfx, 1, m - 1) \o <<IClose>>,
             last |-> e + m - 1, st |-> p_open[1]]
       ELSE IF x >= 1 /\ IsIClose(pre[x])
       THEN [ns |-> SubStr(pre, 1, o - 1) \o <<IOpen("P", p_close[2])>>
                    \o SubStr(pre, o, Len(pre)) \o <<IClose>>,
             last |-> e, st |-> p_close[1]]
       ELSE IF x >= 1 /\ w <= x
       THEN [ns |-> SubStr(pre, 1, w - 1) \o <<IOpen("P", p_close[2])>>
                    \o SubStr(pre, w, Len(pre)) \o <<IClose>>,
             last |-> e, st |-> p_close[1]]
       ELSE [ns |-> pre \o SubStr(s, b, e), last |-> e, st |-> st]

\* the interim text of the tree with adjacent protected regions merged
Merged == merge_prots(Styled.s)

\* the first protected region of Merged treated as ClaimRegion says
FirstRegionAs(keep) ==
    LET b == FindTok(Merged, 1, "protopen")
        e == FindTok(Merged, b + 1, "protclose")
    IN b # 0 =>
         protect_region(Merged, <<>>, 0, b, e, Styled.st)
             = ClaimRegion(Merged, b, e, Styled.st, keep)

\* C18: protect_to_styles treats a protected region by the first case that
\* matches: (1) after a tag or before one, the region and its tf-protect wrapper
\* stay and no style is made; (2) after an inline-open delimiter, a P style with
\* open = the protected text wraps the body of that span; (3) after an
\* inline-close delimiter, a P style with close = the protected text wraps the
\* span just closed; (4) after a non-whitespace token, such a style wraps that
\* token.
C18_ProtectCases == (pc = "spaced" /\ format = "html") => FirstRegionAs(TRUE)

----------------------------------------------------------------------------
(* C19: the passes of protect_to_styles *)

\* what protect_to_styles makes of the interim text of the tree
Promotion == protect_to_styles(Styled.s, Styled.st)

\* the most inline elements nested in one another below dom
RECURSIVE InlineDepth(_, _)
InlineDepth(dom, i) ==
    IF i > Len(dom.c) THEN 0
    ELSE LET below == InlineDepth(dom.c[i], 1)
             here == IF dom.c[i].n \in tags_inline THEN below + 1 ELSE below
             rest == InlineDepth(dom, i + 1)
         IN IF here > rest THEN here ELSE rest

\* the loop has stopped because a pass found no protected region to change
Converged ==
    /\ Promotion.n < ProtectPasses
    /\ FindTok(Promotion.s, 1, "protopen") = 0
    /\ protect_pass(Promotion.s, <<>>, 0, Promotion.st).last = 0

\* C19 as stated: the loop makes at most 100 passes and stops at the first
\* pass that changes nothing; on the interim text save_styles makes, no more
\* than 3 passes change anything.
C19_ThreePasses ==
    (pc = "spaced" /\ format = "html") =>
        /\ Promotion.n <= ProtectPasses
        /\ Converged
        /\ Promotion.n <= 3

\* C19 amended: the same, but the passes that change something are at most
\* one more than inline elements are nested in one another: a region that
\* follows an inline-open delimiter makes the pass skip the regions up to the
\* next close delimiter.
C19_PassesByDepth ==
    (pc = "spaced" /\ format = "html") =>
        /\ Promotion.n <= ProtectPasses
        /\ Converged
        /\ Promotion.n <= InlineDepth(doc, 1) + 1

\* four inline elements nested, each starting with a protected-inline element:
\* four passes change the text
C19_Witness ==
    /\ pc = "spaced" /\ format = "html"
    /\ InlineDepth(doc, 1) = 4
    /\ Promotion.n = 4
    /\ Converged

----------------------------------------------------------------------------
(* C20: which text extract_blocks turns into a block *)

\* what extract_blocks makes of the tree
Extracted ==
    extract_blocks([dom |-> doc, stream |-> <<>>, blocks |-> blocks], FALSE,
                   tags_parents_allow, tags_parents_direct)

\* the text child was replaced by its sentinel wrapping
BlockMade(before, after) == after.s # before.s

\* the tests that bear on the text's parent alone
ParentPasses(parent, child) ==
    /\ (tags_parents_direct = {} \/ parent.n \in tags_parents_direct)
    /\ ~HasProp(parent, "tf-protect")
    /\ AnyAlnum(child.s)

\* every text child below b became a block exactly when it is outside every
\* protected subtree, its parent passes, and tags_parents_allow is empty or
\* holds the parent's name (nearest) or the name of the parent or of an
\* ancestor (~nearest); above is whether an ancestor of b is in the table
RECURSIVE TextRule(_, _, _, _, _, _)
TextRule(b, a, i, above, prot, nearest) ==
    IF i > Len(b.c) THEN TRUE
    ELSE LET allowed == \/ tags_parents_allow = {}
                        \/ b.n \in tags_parents_allow
                        \/ ~nearest /\ above
         IN /\ IF b.c[i].t = "t"
               THEN BlockMade(b.c[i], a.c[i])
                        <=> (~prot /\ allowed /\ ParentPasses(b, b.c[i]))
               ELSE IF b.c[i].t = "e"
               THEN TextRule(b.c[i], a.c[i], 1,
                             above \/ b.n \in tags_parents_allow,
                             prot \/ b.c[i].n \in tags_prot, nearest)
               ELSE TRUE
            /\ TextRule(b, a, i + 1, above, prot, nearest)

\* some text child below b became a block although its parent is not in the
\* non-empty tags_parents_allow
RECURSIVE ByAncestor(_, _, _)
ByAncestor(b, a, i) ==
    IF i > Len(b.c) THEN FALSE
    ELSE \/ /\ b.c[i].t = "t"
            /\ BlockMade(b.c[i], a.c[i])
            /\ tags_parents_allow # {}
            /\ b.n \notin tags_parents_allow
         \/ b.c[i].t = "e" /\ ByAncestor(b.c[i], a.c[i], 1)
         \/ ByAncestor(b, a, i + 1)

\* some text child below b did not become a block
RECURSIVE TextLeft(_, _, _)
TextLeft(b, a, i) ==
    IF i > Len(b.c) THEN FALSE
    ELSE \/ b.c[i].t = "t" /\ ~BlockMade(b.c[i], a.c[i]) /\ AnyAlnum(b.c[i].s)
         \/ b.c[i].t = "e" /\ TextLeft(b.c[i], a.c[i], 1)
         \/ TextLeft(b, a, i + 1)

\* C20 as stated: extract_blocks turns a text child into a block if and only
\* if the text is outside every protected subtree, tags_parents_allow is empty
\* or holds the name of the text's parent, tags_parents_direct is empty or holds
\* the parent's name, the parent carries no tf-protect, and the text has an
\* alphanumeric character; text whose parent is not in a non-empty
\* tags_parents_allow is never extracted, whatever ancestor is in it.
C20_ExtractByParent ==
    pc = "styled" => TextRule(doc, Extracted.dom, 1, FALSE, FALSE, TRUE)

\* C20 amended: the same, but tags_parents_allow is passed by an element down
\* to everything below it: the text is extracted when the table is empty or
\* holds the name of the parent or of any ancestor of the text.
C20_ExtractByAncestor ==
    pc = "styled" => TextRule(doc, Extracted.dom, 1, FALSE, FALSE, FALSE)

\* text below an element outside the table, itself below an element in the
\* table, became a block, and other text with letters did not
C20_Witness ==
    /\ pc = "styled"
    /\ tags_parents_direct # {}
    /\ ByAncestor(doc, Extracted.dom, 1)
    /\ TextLeft(doc, Extracted.dom, 1)

----------------------------------------------------------------------------
(* C21: the expansion loop of inject() *)

\* s holds a protected-inline delimiter
HasProt(s) == \E i \in 1..Len(s) : IsPOpen(s[i])

\* nothing is left for a pass to expand
NothingToExpand(s) == Triples(s) = {} /\ ~HasProt(s)

\* a pass expands the triples with a delimiter-free body, the innermost spans,
\* then the protected-inline delimiters, those the styles brought included,
\* and asks for another pass exactly when it expanded something
PassRule ==
    [][ExpandPass =>
        /\ content' = ExpandedProts(Expanded(content, styles), styles)
        /\ did' = (Triples(content) # {} \/ HasProt(Expanded(content, styles)))
    ]_vars

\* the loop is left only when nothing is left to expand
ExitRule == [](pc = "read" => NothingToExpand(content))

\* the loop, once entered, is left
LoopEnds == (pc = "expand") ~> (pc = "read")

----------------------------------------------------------------------------
(* C22: the transaction of docx_merge_wt *)

\* docx_merge_wt wrote a style
StylePut == styles' # styles

\* C22: in docx_merge_wt every style_put happens after begin() and before the
\* matching commit(), and every path out of the call after begin(), the paths
\* that throw included, has committed or closed the transaction: none is left
\* open when the call ends.
C22_TransactionClosed ==
    [][DocxMergeWt =>
        /\ StylePut => txn = "none" /\ txn' \in {"open", "committed"}
        /\ txn' # "open"
    ]_vars

\* every style written while the call ran is written in a transaction begun
\* in the call, and a call that returns has committed it
C22_PutsInTransaction ==
    [][DocxMergeWt =>
        /\ StylePut => txn = "none" /\ txn' \in {"open", "committed"}
        /\ pc' = "merged" => txn' = "committed"
    ]_vars

\* the call threw on ".//w:hyperlink" after it wrote the styles of the
\* paragraph's runs: the transaction is open
C22_Thrown ==
    /\ pc = "failed"
    /\ txn = "open"
    /\ styles # <<>>

====
